---- MODULE Spec2Model ----
(***************************************************************************)
(* cassandra_fdw: the statement deparser (deparse.c) and the scan and      *)
(* modify execution callbacks (cstar_fdw.c), modelled as a state machine   *)
(* over one foreign table and one planned statement.                       *)
(***************************************************************************)
EXTENDS Integers, Sequences, FiniteSets, TLC

(* ------------------------------------------------------------------ *)
(* Bounds of the model                                                 *)
(* ------------------------------------------------------------------ *)
\* columns of a generated foreign table
MaxAtts == 2
\* rows a remote result holds, and row executions of one modify operation
MaxRows == 2
\* tables of an imported remote schema, and columns of one of them
MaxTables == 2
MaxColumns == 2

(* ------------------------------------------------------------------ *)
(* Names, types, values                                                *)
(* ------------------------------------------------------------------ *)
\* A C string is a tuple of one-character strings; NULL is the empty tuple.
NullStr == << >>

INT2OID == "INT2OID"
INT4OID == "INT4OID"
INT8OID == "INT8OID"
FLOAT4OID == "FLOAT4OID"
FLOAT8OID == "FLOAT8OID"
BOOLOID == "BOOLOID"
TEXTOID == "TEXTOID"
VARCHAROID == "VARCHAROID"
BPCHAROID == "BPCHAROID"
NUMERICOID == "NUMERICOID"
TIMESTAMPOID == "TIMESTAMPOID"
TIMESTAMPTZOID == "TIMESTAMPTZOID"
INETOID == "INETOID"
UUIDOID == "UUIDOID"
InvalidOid == "InvalidOid"

\* attribute numbers: user columns are 1.., 0 is the whole-row reference
InvalidAttrNumber == 0
FirstLowInvalidHeapAttributeNumber == -7

MSECS_PER_SEC == 1000

\* integer division as C computes it: the quotient is truncated toward zero
CDiv(a, b) == IF a >= 0 THEN a \div b ELSE 0 - ((0 - a) \div b)

\* a Datum with its null flag; a null Datum carries 0
NullDatum == [isnull |-> TRUE, val |-> 0]
Datum(v) == [isnull |-> FALSE, val |-> v]

(* ------------------------------------------------------------------ *)
(* Catalog: the foreign table                                          *)
(* ------------------------------------------------------------------ *)
Digit == <<"1", "2", "3", "4", "5", "6", "7", "8", "9">>
ColName(i) == <<"c", Digit[i]>>
DroppedName(i) == <<".", "d", "r", "o", "p", "p", "e", "d", ".", Digit[i]>>

\* types of the columns of the generated tables: the type whose null cannot
\* be bound, a type every path supports, a type the write path rejects
ColTypes == {INT2OID, INT4OID, NUMERICOID}

Attr(name, typid) ==
    [attname |-> name, atttypid |-> typid, attisdropped |-> FALSE,
     column_name |-> NullStr]
DroppedAttr(i) ==
    [attname |-> DroppedName(i), atttypid |-> InvalidOid, attisdropped |-> TRUE,
     column_name |-> NullStr]

AttrsAt(i) == {Attr(ColName(i), t) : t \in ColTypes} \cup {DroppedAttr(i)}

RECURSIVE TupDescsOfLen(_)
TupDescsOfLen(n) ==
    IF n = 0 THEN {<< >>}
    ELSE {Append(td, a) : td \in TupDescsOfLen(n - 1), a \in AttrsAt(n)}

TupDescs == UNION {TupDescsOfLen(n) : n \in 1..MaxAtts}

\* the primary_key table option: absent, a column's name, a name no column's
\* name starts with, or a name that is the start of a column's name
PKOptions(td) ==
    {NullStr, <<"z">>, <<"c">>} \cup {td[i].attname : i \in {k \in 1..Len(td) : ~td[k].attisdropped}}

\* the table options query, read_consistency and write_consistency are
\* absent (NullStr, "")
Relation(td, pk) ==
    [tupdesc |-> td, nspname |-> <<"public">>, relname |-> <<"ft">>,
     schema_name |-> <<"ks">>, table_name |-> <<"t">>, query |-> NullStr,
     primary_key |-> pk, read_consistency |-> "", write_consistency |-> ""]

Relations == UNION {{Relation(td, pk) : pk \in PKOptions(td)} : td \in TupDescs}

\* the table of the specification's scenario:
\*   (id int, v1 smallint, v2 bigint, v3 boolean), primary key id
ScenarioRel ==
    Relation(<<Attr(<<"i", "d">>, INT4OID), Attr(<<"v", "1">>, INT2OID),
               Attr(<<"v", "2">>, INT8OID), Attr(<<"v", "3">>, BOOLOID)>>,
             <<"i", "d">>)

natts(r) == Len(r.tupdesc)

\* the rows of the model: column a holds null or one value of its own, the
\* column's number (true for a boolean column)
ColumnValue(r, a) == IF r.tupdesc[a].atttypid = BOOLOID THEN 1 ELSE a
ColumnDatums(r, a) == {NullDatum, Datum(ColumnValue(r, a))}
LiveAttnos(r) == {i \in 1..natts(r) : ~r.tupdesc[i].attisdropped}

\* cassGetPKOption: the primary_key option of the table, NULL when absent
cassGetPKOption(r) == r.primary_key

(* ------------------------------------------------------------------ *)
(* Statement text: a sequence of tokens                                *)
(* ------------------------------------------------------------------ *)
\* a literal piece of statement text
Lit(s) == [k |-> "lit", t |-> <<s>>]
\* a name printed with %s
Raw(name) == [k |-> "raw", t |-> name]
\* a name printed through quote_identifier()
quote_identifier(name) == [k |-> "quoted", t |-> name]

\* the text quote_identifier() gives: the name itself when it starts with a
\* lower-case letter or an underscore and holds only these and digits (no
\* name of the model is a keyword), else the name between double quotes
\* with every double quote doubled
IdentStart ==
    {"a", "b", "c", "d", "e", "f", "g", "h", "i", "j", "k", "l", "m", "n", "o",
     "p", "q", "r", "s", "t", "u", "v", "w", "x", "y", "z", "_"}
IdentChars == IdentStart \cup {"0", "1", "2", "3", "4", "5", "6", "7", "8", "9"}

RECURSIVE DoubledQuotes(_)
DoubledQuotes(name) ==
    IF name = << >> THEN << >>
    ELSE (IF Head(name) = "\"" THEN <<"\"", "\"">> ELSE <<Head(name)>>)
         \o DoubledQuotes(Tail(name))

QuotedText(name) ==
    IF /\ name # << >>
       /\ name[1] \in IdentStart
       /\ \A k \in 1..Len(name) : name[k] \in IdentChars
    THEN name
    ELSE <<"\"">> \o DoubledQuotes(name) \o <<"\"">>

\* the characters a token puts into the statement text
TokenText(tok) == IF tok.k = "quoted" THEN QuotedText(tok.t) ELSE tok.t

\* positional placeholders a token carries
PlaceholdersIn(tok) == IF tok \in {Lit("?"), Lit(" = ?")} THEN 1 ELSE 0

RECURSIVE NumPlaceholders(_)
NumPlaceholders(sql) ==
    IF sql = << >> THEN 0
    ELSE PlaceholdersIn(Head(sql)) + NumPlaceholders(Tail(sql))

\* Bitmapset membership
bms_is_member(x, a) == x \in a

\* ascending sequence of the members of a finite set of integers
RECURSIVE SortedSeq(_)
SortedSeq(S) ==
    IF S = {} THEN << >>
    ELSE LET m == CHOOSE x \in S : \A y \in S : x <= y
         IN <<m>> \o SortedSeq(S \ {m})

SeqToSet(s) == {s[i] : i \in 1..Len(s)}

(* ------------------------------------------------------------------ *)
(* deparse.c                                                           *)
(* ------------------------------------------------------------------ *)
cassDeparseRelation(r) ==
    LET nspname == IF r.schema_name = NullStr THEN r.nspname ELSE r.schema_name
        relname == IF r.table_name = NullStr THEN r.relname ELSE r.table_name
    IN <<quote_identifier(nspname), Lit("."), quote_identifier(relname)>>

cassDeparseColumnRef(r, varattno) ==
    LET att == r.tupdesc[varattno]
        colname == IF att.column_name # NullStr THEN att.column_name
                   ELSE att.attname
    IN <<quote_identifier(colname)>>

\* the loop of cassDeparseTargetList from column i on
RECURSIVE TargetListLoop(_, _, _, _)
TargetListLoop(r, attrs_used, i, acc) ==
    IF i > natts(r) THEN acc
    ELSE LET attr == r.tupdesc[i]
             have_wholerow ==
                 bms_is_member(0 - FirstLowInvalidHeapAttributeNumber, attrs_used)
         IN IF attr.attisdropped
            THEN TargetListLoop(r, attrs_used, i + 1, acc)
            ELSE IF have_wholerow \/
                    bms_is_member(i - FirstLowInvalidHeapAttributeNumber, attrs_used)
            THEN TargetListLoop(r, attrs_used, i + 1,
                    [buf |-> acc.buf \o (IF acc.first THEN << >> ELSE <<Lit(", ")>>)
                                     \o cassDeparseColumnRef(r, i),
                     first |-> FALSE,
                     retrieved_attrs |-> Append(acc.retrieved_attrs, i)])
            ELSE TargetListLoop(r, attrs_used, i + 1, acc)

\* a variant for the whole-row request that lists every attribute number of
\* the table, the dropped ones too
cassDeparseTargetList_KeepDropped(r, attrs_used) ==
    LET res == TargetListLoop(r, attrs_used, 1,
                   [buf |-> << >>, first |-> TRUE, retrieved_attrs |-> << >>])
        have_wholerow ==
            bms_is_member(0 - FirstLowInvalidHeapAttributeNumber, attrs_used)
    IN [buf |-> IF res.first THEN res.buf \o <<Lit("NULL")>> ELSE res.buf,
        retrieved_attrs |-> IF have_wholerow THEN [i \in 1..natts(r) |-> i]
                            ELSE res.retrieved_attrs]

cassDeparseTargetList(r, attrs_used) ==
    LET res == TargetListLoop(r, attrs_used, 1,
                   [buf |-> << >>, first |-> TRUE, retrieved_attrs |-> << >>])
    IN [buf |-> IF res.first THEN res.buf \o <<Lit("NULL")>> ELSE res.buf,
        retrieved_attrs |-> res.retrieved_attrs]

cassDeparseSelectSql(r, attrs_used) ==
    LET tl == cassDeparseTargetList(r, attrs_used)
    IN [sql |-> <<Lit("SELECT ")>> \o tl.buf \o <<Lit(" FROM ")>>
                \o cassDeparseRelation(r),
        retrieved_attrs |-> tl.retrieved_attrs]

\* the two foreach loops of cassDeparseInsertSql
RECURSIVE InsertColumns(_, _, _)
InsertColumns(r, targetAttrs, k) ==
    IF k > Len(targetAttrs) THEN << >>
    ELSE (IF k = 1 THEN << >> ELSE <<Lit(", ")>>)
         \o cassDeparseColumnRef(r, targetAttrs[k])
         \o InsertColumns(r, targetAttrs, k + 1)

RECURSIVE InsertPlaceholders(_, _)
InsertPlaceholders(targetAttrs, k) ==
    IF k > Len(targetAttrs) THEN << >>
    ELSE (IF k = 1 THEN << >> ELSE <<Lit(", ")>>) \o <<Lit("?")>>
         \o InsertPlaceholders(targetAttrs, k + 1)

cassDeparseInsertSql(r, targetAttrs, doNothing) ==
    <<Lit("INSERT INTO ")>> \o cassDeparseRelation(r)
    \o (IF targetAttrs # << >>
        THEN <<Lit("(")>> \o InsertColumns(r, targetAttrs, 1)
             \o <<Lit(") VALUES (")>> \o InsertPlaceholders(targetAttrs, 1)
             \o <<Lit(")")>>
        ELSE <<Lit(" DEFAULT VALUES")>>)
    \o (IF doNothing THEN <<Lit(" ON CONFLICT DO NOTHING")>> ELSE << >>)

RECURSIVE UpdateSetList(_, _, _)
UpdateSetList(r, targetAttrs, k) ==
    IF k > Len(targetAttrs) THEN << >>
    ELSE (IF k = 1 THEN << >> ELSE <<Lit(", ")>>)
         \o cassDeparseColumnRef(r, targetAttrs[k]) \o <<Lit(" = ?")>>
         \o UpdateSetList(r, targetAttrs, k + 1)

\* a variant without the WHERE clause of the key
cassDeparseUpdateSql_NoWhere(r, targetAttrs, primaryKey) ==
    <<Lit("UPDATE ")>> \o cassDeparseRelation(r) \o <<Lit(" SET ")>>
    \o UpdateSetList(r, targetAttrs, 1)

cassDeparseUpdateSql(r, targetAttrs, primaryKey) ==
    <<Lit("UPDATE ")>> \o cassDeparseRelation(r) \o <<Lit(" SET ")>>
    \o UpdateSetList(r, targetAttrs, 1)
    \o <<Lit(" WHERE "), Raw(primaryKey), Lit(" = ?")>>

cassDeparseDeleteSql(r, primaryKey) ==
    <<Lit("DELETE FROM ")>> \o cassDeparseRelation(r)
    \o <<Lit(" WHERE "), Raw(primaryKey), Lit(" = ?")>>

(* ------------------------------------------------------------------ *)
(* Table options                                                       *)
(* ------------------------------------------------------------------ *)
DEFAULT_CONSISTENCY_LEVEL == "CASS_CONSISTENCY_LOCAL_ONE"

consistency_from_string(s) ==
    IF s = "ANY" THEN "CASS_CONSISTENCY_ANY"
    ELSE IF s = "ONE" THEN "CASS_CONSISTENCY_ONE"
    ELSE IF s = "TWO" THEN "CASS_CONSISTENCY_TWO"
    ELSE IF s = "THREE" THEN "CASS_CONSISTENCY_THREE"
    ELSE IF s = "QUORUM" THEN "CASS_CONSISTENCY_QUORUM"
    ELSE IF s = "ALL" THEN "CASS_CONSISTENCY_ALL"
    ELSE IF s = "LOCAL_QUORUM" THEN "CASS_CONSISTENCY_LOCAL_QUORUM"
    ELSE IF s = "EACH_QUORUM" THEN "CASS_CONSISTENCY_EACH_QUORUM"
    ELSE IF s = "SERIAL" THEN "CASS_CONSISTENCY_SERIAL"
    ELSE IF s = "LOCAL_SERIAL" THEN "CASS_CONSISTENCY_LOCAL_SERIAL"
    ELSE IF s = "LOCAL_ONE" THEN "CASS_CONSISTENCY_LOCAL_ONE"
    ELSE "CASS_CONSISTENCY_UNKNOWN"

\* a variant that reads the level of the writes
cassGetReadConsistencyOption_OfWrites(r) ==
    IF r.write_consistency = "" THEN DEFAULT_CONSISTENCY_LEVEL
    ELSE consistency_from_string(r.write_consistency)

cassGetReadConsistencyOption(r) ==
    IF r.read_consistency = "" THEN DEFAULT_CONSISTENCY_LEVEL
    ELSE consistency_from_string(r.read_consistency)

cassGetWriteConsistencyOption(r) ==
    IF r.write_consistency = "" THEN DEFAULT_CONSISTENCY_LEVEL
    ELSE consistency_from_string(r.write_consistency)

(* ------------------------------------------------------------------ *)
(* Errors                                                              *)
(* ------------------------------------------------------------------ *)
\* what ereport(ERROR, ...) carries: the message kind, the operation name
\* and the remote message text printed into it
Error(kind, op, msg) == [kind |-> kind, op |-> op, msg |-> msg]
NoError == Error("none", "", "")

\* cstar_fdw_validator for the options of a foreign table: the error it
\* raises, none when it accepts them. Which of two errors is raised when
\* two apply depends on the order of the options in the list.
cstar_fdw_validator(r) ==
    IF r.query # NullStr /\ r.table_name # NullStr
    THEN Error("conflicting_options", "", "")
    ELSE IF r.read_consistency # "" /\
            consistency_from_string(r.read_consistency) = "CASS_CONSISTENCY_UNKNOWN"
    THEN Error("unknown_read_consistency", "", "")
    ELSE IF r.read_consistency # "" /\
            consistency_from_string(r.read_consistency) = "CASS_CONSISTENCY_ANY"
    THEN Error("any_read_consistency", "", "")
    ELSE IF r.write_consistency # "" /\
            consistency_from_string(r.write_consistency) = "CASS_CONSISTENCY_UNKNOWN"
    THEN Error("unknown_write_consistency", "", "")
    ELSE IF r.query = NullStr /\ r.table_name = NullStr
    THEN Error("table_name_or_query_required", "", "")
    ELSE NoError

\* message texts the remote store answers a failed execute with
RemoteMessages == {"Unavailable", "Write timeout"}

(* ------------------------------------------------------------------ *)
(* The driver's statement object                                       *)
(* ------------------------------------------------------------------ *)
\* one parameter of a CassStatement: the bind call that set it and its value
Param(kind, v) == [kind |-> kind, val |-> v]
Unset == Param("unset", 0)

\* cass_statement_new(query, parameter_count)
cass_statement_new(query, parameter_count) ==
    [query |-> query, nparams |-> parameter_count,
     params |-> [i \in 1..parameter_count |-> Unset],
     consistency |-> "CASS_CONSISTENCY_UNKNOWN"]

\* no statement object exists
NoStatement == cass_statement_new(<< >>, 0)

\* cass_statement_bind_<kind>(statement, index, v): an index outside the
\* statement's parameters is refused and the statement is unchanged
cass_statement_bind(st, index, p) ==
    IF index + 1 \in 1..st.nparams
    THEN [st EXCEPT !.params[index + 1] = p]
    ELSE st

cass_statement_bind_null(st, index) == cass_statement_bind(st, index, Param("null", 0))

cass_statement_set_consistency(st, c) == [st EXCEPT !.consistency = c]

(* ------------------------------------------------------------------ *)
(* Per-operation state and the machine the handlers run on             *)
(* ------------------------------------------------------------------ *)
\* CassFdwModifyState after palloc0: cass_conn and statement are 0 for NULL
NewModifyState ==
    [cass_conn |-> 0, sql_sent |-> FALSE, statement |-> 0,
     write_consistency |-> "CASS_CONSISTENCY_UNKNOWN",
     query |-> << >>, target_attrs |-> << >>, has_returning |-> FALSE,
     retrieved_attrs |-> << >>, keyAttno |-> InvalidAttrNumber, p_nums |-> 0,
     p_type_oids |-> << >>]

\* A handler runs on the record m:
\*   fm     the CassFdwModifyState
\*   null   ri_FdwState is NULL
\*   st     the CassStatement object fm.statement points to
\*   calls  the calls made so far on the driver and the connection provider,
\*          and the errors raised
\*   wire   the last request cass_session_execute sent
\*   reply  the remote store's answer to it
\*   tz     the offset of the session's time zone
\*   result the list of statements an import has built
\*   err    the error ereport(ERROR) raised; control has left the handler
Raise(m, e) == [m EXCEPT !.err = e, !.calls = Append(@, "ereport")]
Call(m, name) == [m EXCEPT !.calls = Append(@, name)]

RECURSIVE Count(_, _)
Count(s, x) ==
    IF s = << >> THEN 0
    ELSE (IF Head(s) = x THEN 1 ELSE 0) + Count(Tail(s), x)

NoRequest == [query |-> << >>, params |-> << >>, consistency |-> ""]
NoReply == [ok |-> TRUE, message |-> ""]

\* cass_session_execute(session, statement): the request goes out and the
\* remote store answers with success or with an error message
cass_session_execute(m, rc_ok, message) ==
    [Call(m, "cass_session_execute") EXCEPT
        !.wire = [query |-> m.st.query, params |-> m.st.params,
                  consistency |-> m.st.consistency],
        !.reply = [ok |-> rc_ok, message |-> message]]

\* releaseCassResources
releaseCassResources(m) ==
    IF m.null THEN m
    ELSE LET m1 == IF m.fm.statement # 0 /\ m.fm.sql_sent
                   THEN Call(m, "cass_statement_free")
                   ELSE m
             m2 == Call(m1, "pgcass_ReleaseConnection")
         IN [m2 EXCEPT !.fm.cass_conn = 0]

\* a variant that binds a null whatever the column's type
cassStatementBindNull_AnyType(m, pindex, ptypeid, opname) ==
    [m EXCEPT !.st = cass_statement_bind_null(m.st, pindex)]

\* cassStatementBindNull
cassStatementBindNull(m, pindex, ptypeid, opname) ==
    IF ptypeid = INT2OID
    THEN Raise(releaseCassResources(m), Error("bind_null_smallint", opname, ""))
    ELSE [m EXCEPT !.st = cass_statement_bind_null(m.st, pindex)]

\* bind_cass_statement_param
\* A timestamp Datum holds the microseconds since the Unix epoch, that is
\* DatumGetTimestampTz(value) - SetEpochTimestamp(); tzoffset is m.tz.
bind_cass_statement_param(m, type, value, pindex) ==
    LET bind(kind, v) == [m EXCEPT !.st = cass_statement_bind(m.st, pindex, Param(kind, v))]
    IN CASE type = INT2OID -> bind("int16", value)
         [] type = INT4OID -> bind("int32", value)
         [] type = INT8OID -> bind("int64", value)
         [] type = FLOAT4OID -> bind("float", value)
         [] type = FLOAT8OID -> bind("double", value)
         [] type = BOOLOID -> bind("bool", value)
         [] type \in {TEXTOID, VARCHAROID, BPCHAROID} -> bind("string", value)
         [] type \in {TIMESTAMPTZOID, TIMESTAMPOID} ->
                bind("int64", CDiv(value + m.tz, MSECS_PER_SEC))
         [] OTHER -> Raise(m, Error("type_not_supported", "", ""))

\* a variant that takes the k-th parameter from the k-th column of the tuple
RECURSIVE BindTargetAttrs_ByPosition(_, _, _, _)
BindTargetAttrs_ByPosition(m, slot, opname, k) ==
    IF m.err # NoError \/ k > Len(m.fm.target_attrs) THEN m
    ELSE LET pindex == k - 1
             d == slot[k]
             m1 == IF d.isnull
                   THEN cassStatementBindNull(m, pindex, m.fm.p_type_oids[pindex + 1], opname)
                   ELSE bind_cass_statement_param(m, m.fm.p_type_oids[pindex + 1], d.val, pindex)
         IN BindTargetAttrs_ByPosition(m1, slot, opname, k + 1)

\* the foreach over target_attrs of cassExecForeignInsert and
\* cassExecPKPredWrite, from list position k on (pindex = k - 1)
RECURSIVE BindTargetAttrs(_, _, _, _)
BindTargetAttrs(m, slot, opname, k) ==
    IF m.err # NoError \/ k > Len(m.fm.target_attrs) THEN m
    ELSE LET attnum == m.fm.target_attrs[k]
             pindex == k - 1
             d == slot[attnum]
             m1 == IF d.isnull
                   THEN cassStatementBindNull(m, pindex, m.fm.p_type_oids[pindex + 1], opname)
                   ELSE bind_cass_statement_param(m, m.fm.p_type_oids[pindex + 1], d.val, pindex)
         IN BindTargetAttrs(m1, slot, opname, k + 1)

\* a variant that raises the remote error without releasing anything
ExecuteWrite_NoRelease(m, opname, rc_ok, message) ==
    LET m1 == [m EXCEPT !.st = cass_statement_set_consistency(m.st, m.fm.write_consistency)]
        m2 == cass_session_execute(m1, rc_ok, message)
        m3 == [m2 EXCEPT !.fm.sql_sent = TRUE]
    IN IF ~rc_ok
       THEN Raise(m3, Error("remote_execute", opname, message))
       ELSE m3

\* the tail both write handlers share: execute, mark sent, check the outcome
ExecuteWrite(m, opname, rc_ok, message) ==
    LET m1 == [m EXCEPT !.st = cass_statement_set_consistency(m.st, m.fm.write_consistency)]
        m2 == cass_session_execute(m1, rc_ok, message)
        m3 == [m2 EXCEPT !.fm.sql_sent = TRUE]
    IN IF ~rc_ok
       THEN Raise(releaseCassResources(m3), Error("remote_execute", opname, message))
       ELSE m3

\* a variant that creates a statement at every row execution
NewStatementIfNotSent_EveryRow(m) ==
    [Call(m, "cass_statement_new") EXCEPT
        !.fm.statement = 1,
        !.st = cass_statement_new(m.fm.query, m.fm.p_nums)]

\* the head both write handlers share: create the statement on first use
NewStatementIfNotSent(m) ==
    IF ~m.fm.sql_sent
    THEN [Call(m, "cass_statement_new") EXCEPT
            !.fm.statement = 1,
            !.st = cass_statement_new(m.fm.query, m.fm.p_nums)]
    ELSE m

\* cassExecForeignInsert
cassExecForeignInsert(m, slot, rc_ok, message) ==
    LET m1 == NewStatementIfNotSent(m)
        m2 == IF m1.fm.target_attrs # << >>
              THEN BindTargetAttrs(m1, slot, "INSERT", 1)
              ELSE m1
    IN IF m2.err # NoError THEN m2
       ELSE ExecuteWrite(m2, "INSERT", rc_ok, message)

\* a variant without the check for a null key value
cassExecPKPredWrite_NoNullKeyCheck(m, slot, key, cqlOpName, rc_ok, message) ==
    LET m1 == NewStatementIfNotSent(m)
        m2 == IF m1.fm.target_attrs # << >>
              THEN BindTargetAttrs(m1, slot, cqlOpName, 1)
              ELSE m1
        pindex == IF m1.fm.target_attrs # << >> THEN Len(m1.fm.target_attrs) ELSE 0
    IN IF m2.err # NoError THEN m2
       ELSE LET m3 == bind_cass_statement_param(m2, m2.fm.p_type_oids[pindex + 1],
                                                key.val, pindex)
            IN IF m3.err # NoError THEN m3
               ELSE ExecuteWrite(m3, cqlOpName, rc_ok, message)

\* a variant that binds the key value at position 0
cassExecPKPredWrite_KeyFirst(m, slot, key, cqlOpName, rc_ok, message) ==
    LET m1 == NewStatementIfNotSent(m)
        m2 == IF m1.fm.target_attrs # << >>
              THEN BindTargetAttrs(m1, slot, cqlOpName, 1)
              ELSE m1
        pindex == IF m1.fm.target_attrs # << >> THEN Len(m1.fm.target_attrs) ELSE 0
    IN IF m2.err # NoError THEN m2
       ELSE IF key.isnull THEN Raise(m2, Error("pk_null", cqlOpName, ""))
       ELSE LET m3 == bind_cass_statement_param(m2, m2.fm.p_type_oids[pindex + 1],
                                                key.val, 0)
            IN IF m3.err # NoError THEN m3
               ELSE ExecuteWrite(m3, cqlOpName, rc_ok, message)

\* cassExecPKPredWrite: key is the resjunk key value of planSlot
cassExecPKPredWrite(m, slot, key, cqlOpName, rc_ok, message) ==
    LET m1 == NewStatementIfNotSent(m)
        m2 == IF m1.fm.target_attrs # << >>
              THEN BindTargetAttrs(m1, slot, cqlOpName, 1)
              ELSE m1
        pindex == IF m1.fm.target_attrs # << >> THEN Len(m1.fm.target_attrs) ELSE 0
    IN IF m2.err # NoError THEN m2
       ELSE IF key.isnull THEN Raise(m2, Error("pk_null", cqlOpName, ""))
       ELSE LET m3 == bind_cass_statement_param(m2, m2.fm.p_type_oids[pindex + 1],
                                                key.val, pindex)
            IN IF m3.err # NoError THEN m3
               ELSE ExecuteWrite(m3, cqlOpName, rc_ok, message)

\* cassEndForeignModify
cassEndForeignModify(m) == releaseCassResources(m)

(* ------------------------------------------------------------------ *)
(* Planning a modify                                                   *)
(* ------------------------------------------------------------------ *)
\* a target-list entry of the query
TLE(resname, resno, attno, resjunk) ==
    [resname |-> resname, resno |-> resno, attno |-> attno, resjunk |-> resjunk]

\* strncmp(s, p, strlen(p)) == 0
strncmp_eq(s, p) == Len(p) <= Len(s) /\ SubSeq(s, 1, Len(p)) = p

\* the loop of cassAddForeignUpdateTargets from column i on
RECURSIVE AddTargetsLoop(_, _, _, _)
AddTargetsLoop(r, primary_key, i, acc) ==
    IF i > natts(r) THEN acc
    ELSE LET att == r.tupdesc[i]
         IN IF strncmp_eq(att.attname, primary_key)
            THEN AddTargetsLoop(r, primary_key, i + 1,
                    [targetList |-> Append(acc.targetList,
                                       TLE(att.attname, Len(acc.targetList) + 1, i, TRUE)),
                     has_PK |-> TRUE])
            ELSE AddTargetsLoop(r, primary_key, i + 1, acc)

\* cassAddForeignUpdateTargets: the query's target list with the key added
\* as a resjunk entry, or the error raised
cassAddForeignUpdateTargets(r, targetList) ==
    LET primary_key == cassGetPKOption(r)
    IN IF primary_key = NullStr
       THEN [err |-> Error("no_primary_key", "", ""), targetList |-> targetList]
       ELSE LET res == AddTargetsLoop(r, primary_key, 1,
                           [targetList |-> targetList, has_PK |-> FALSE])
            IN IF ~res.has_PK
               THEN [err |-> Error("primary_key_not_found", "", ""),
                     targetList |-> res.targetList]
               ELSE [err |-> NoError, targetList |-> res.targetList]

NoPlan == [sql |-> << >>, targetAttrs |-> << >>, has_returning |-> FALSE,
           retrieved_attrs |-> << >>]

\* the attribute numbers of the bits of updatedCols, ascending (bms_next_member)
UpdatedAttnos(updatedCols) ==
    SortedSeq({col + FirstLowInvalidHeapAttributeNumber : col \in updatedCols})

\* a variant whose INSERT takes every attribute, dropped or not
PlanTargetAttrs_EveryAttribute(r, operation, rte) ==
    IF operation = "INSERT" THEN [attnum \in 1..natts(r) |-> attnum]
    ELSE IF operation = "UPDATE" THEN UpdatedAttnos(rte.updatedCols)
    ELSE << >>

\* targetAttrs of cassPlanForeignModify: the attribute loop of an INSERT, the
\* updatedCols loop of an UPDATE, NIL for a DELETE
PlanTargetAttrs(r, operation, rte) ==
    IF operation = "INSERT" THEN SortedSeq(LiveAttnos(r))
    ELSE IF operation = "UPDATE" THEN UpdatedAttnos(rte.updatedCols)
    ELSE << >>

\* a variant whose INSERT lists the columns the statement names
cassPlanForeignModify_NamedColumns(r, operation, rte, onConflictAction) ==
    LET targetAttrs ==
            IF operation = "INSERT" THEN UpdatedAttnos(rte.insertedCols)
            ELSE IF operation = "UPDATE" THEN UpdatedAttnos(rte.updatedCols)
            ELSE << >>
        doNothing == onConflictAction = "ONCONFLICT_NOTHING"
        primaryKey == cassGetPKOption(r)
        sql == IF operation = "INSERT"
               THEN cassDeparseInsertSql(r, targetAttrs, doNothing)
               ELSE IF operation = "UPDATE"
               THEN cassDeparseUpdateSql(r, targetAttrs, primaryKey)
               ELSE cassDeparseDeleteSql(r, primaryKey)
    IN IF onConflictAction \notin {"ONCONFLICT_NOTHING", "ONCONFLICT_NONE"}
       THEN [err |-> Error("unexpected_on_conflict", "", ""), fdw_private |-> NoPlan]
       ELSE [err |-> NoError,
             fdw_private |-> [sql |-> sql, targetAttrs |-> targetAttrs,
                              has_returning |-> FALSE, retrieved_attrs |-> << >>]]

\* cassPlanForeignModify: fdw_private, or the error raised
\* rte is the range-table entry of the target: its insertedCols, updatedCols
cassPlanForeignModify(r, operation, rte, onConflictAction) ==
    LET targetAttrs == PlanTargetAttrs(r, operation, rte)
        doNothing == onConflictAction = "ONCONFLICT_NOTHING"
        primaryKey == cassGetPKOption(r)
        sql == IF operation = "INSERT"
               THEN cassDeparseInsertSql(r, targetAttrs, doNothing)
               ELSE IF operation = "UPDATE"
               THEN cassDeparseUpdateSql(r, targetAttrs, primaryKey)
               ELSE cassDeparseDeleteSql(r, primaryKey)
    IN IF operation = "UPDATE" /\
          \E k \in 1..Len(targetAttrs) : targetAttrs[k] <= InvalidAttrNumber
       THEN [err |-> Error("system_column_update", "", ""), fdw_private |-> NoPlan]
       ELSE IF onConflictAction \notin {"ONCONFLICT_NOTHING", "ONCONFLICT_NONE"}
       THEN [err |-> Error("unexpected_on_conflict", "", ""), fdw_private |-> NoPlan]
       ELSE [err |-> NoError,
             fdw_private |-> [sql |-> sql, targetAttrs |-> targetAttrs,
                              has_returning |-> FALSE, retrieved_attrs |-> << >>]]

(* ------------------------------------------------------------------ *)
(* Beginning a modify                                                  *)
(* ------------------------------------------------------------------ *)
\* ExecFindJunkAttributeInTlist: resno of the first resjunk entry so named
ExecFindJunkAttributeInTlist(targetlist, attrName) ==
    LET hits == {k \in 1..Len(targetlist) :
                    targetlist[k].resjunk /\ targetlist[k].resname = attrName}
    IN IF hits = {} THEN InvalidAttrNumber
       ELSE targetlist[CHOOSE k \in hits : \A j \in hits : k <= j].resno

\* get_attnum: number of the live column so named, InvalidAttrNumber if none
get_attnum(r, attname) ==
    LET hits == {i \in LiveAttnos(r) : r.tupdesc[i].attname = attname}
    IN IF hits = {} THEN InvalidAttrNumber ELSE CHOOSE i \in hits : TRUE

\* cassBeginForeignModify
cassBeginForeignModify(m, r, operation, fdw_private, targetlist, explain_only) ==
    IF explain_only THEN m
    ELSE
    LET target_attrs == fdw_private.targetAttrs
        n_params == Len(target_attrs) + 1
        typed == operation \in {"INSERT", "UPDATE"}
        p_nums1 == IF typed THEN Len(target_attrs) ELSE 0
        oids1 == [i \in 1..n_params |->
                    IF typed /\ i <= Len(target_attrs)
                    THEN r.tupdesc[target_attrs[i]].atttypid
                    ELSE InvalidOid]
        fm1 == [NewModifyState EXCEPT
                  !.cass_conn = 1,
                  !.sql_sent = FALSE,
                  !.write_consistency = cassGetWriteConsistencyOption(r),
                  !.query = fdw_private.sql,
                  !.target_attrs = target_attrs,
                  !.has_returning = fdw_private.has_returning,
                  !.retrieved_attrs = fdw_private.retrieved_attrs,
                  !.p_type_oids = oids1,
                  !.p_nums = p_nums1]
        m1 == [Call(m, "pgcass_GetConnection") EXCEPT !.fm = fm1]
    IN IF operation \in {"UPDATE", "DELETE"}
       THEN LET primaryKey == cassGetPKOption(r)
                keyAttno == ExecFindJunkAttributeInTlist(targetlist, primaryKey)
                attnum == get_attnum(r, primaryKey)
            IN IF keyAttno = InvalidAttrNumber
               THEN Raise([m1 EXCEPT !.fm.keyAttno = keyAttno],
                          Error("no_junk_attribute", "", ""))
               ELSE [m1 EXCEPT !.fm.keyAttno = keyAttno,
                               !.fm.p_type_oids[p_nums1 + 1] =
                                   IF attnum \in 1..natts(r)
                                   THEN r.tupdesc[attnum].atttypid
                                   ELSE InvalidOid,
                               !.fm.p_nums = p_nums1 + 1,
                               !.null = FALSE]
       ELSE [m1 EXCEPT !.null = FALSE]

(* ------------------------------------------------------------------ *)
(* Text form of values: the read path goes through text                *)
(* ------------------------------------------------------------------ *)
DigitChars == <<"0", "1", "2", "3", "4", "5", "6", "7", "8", "9">>

\* printf("%d", n)
RECURSIVE Itoa(_)
Itoa(n) ==
    IF n < 0 THEN <<"-">> \o Itoa(0 - n)
    ELSE IF n < 10 THEN <<DigitChars[n + 1]>>
    ELSE Itoa(n \div 10) \o <<DigitChars[(n % 10) + 1]>>

IsDigit(c) == \E d \in 1..10 : DigitChars[d] = c
DigitVal(c) == (CHOOSE d \in 1..10 : DigitChars[d] = c) - 1

RECURSIVE TrimLeft(_)
TrimLeft(s) == IF s # << >> /\ Head(s) = " " THEN TrimLeft(Tail(s)) ELSE s

RECURSIVE TrimRight(_)
TrimRight(s) ==
    IF s # << >> /\ s[Len(s)] = " " THEN TrimRight(SubSeq(s, 1, Len(s) - 1)) ELSE s

RECURSIVE DigitsValue(_, _)
DigitsValue(s, acc) ==
    IF s = << >> THEN acc ELSE DigitsValue(Tail(s), 10 * acc + DigitVal(Head(s)))

\* the integer input functions: blanks, an optional sign, digits, blanks
ParseDigits(neg, body) ==
    IF body = << >> \/ \E k \in 1..Len(body) : ~IsDigit(body[k])
    THEN [ok |-> FALSE, val |-> 0]
    ELSE [ok |-> TRUE,
          val |-> IF neg THEN 0 - DigitsValue(body, 0) ELSE DigitsValue(body, 0)]

ParseSigned(t) ==
    ParseDigits(t # << >> /\ Head(t) = "-",
                IF t # << >> /\ Head(t) \in {"-", "+"} THEN Tail(t) ELSE t)

ParseInt(str) == ParseSigned(TrimRight(TrimLeft(str)))

\* boolin
ParseBoolTrimmed(t) ==
    IF t \in {<<"t", "r", "u", "e">>, <<"t">>} THEN [ok |-> TRUE, val |-> 1]
    ELSE IF t \in {<<"f", "a", "l", "s", "e">>, <<"f">>} THEN [ok |-> TRUE, val |-> 0]
    ELSE [ok |-> FALSE, val |-> 0]

ParseBool(str) == ParseBoolTrimmed(TrimRight(TrimLeft(str)))

\* the Datum an input function returns, none when it raises
InputResult(res) ==
    [ok |-> res.ok, datum |-> IF res.ok THEN Datum(res.val) ELSE NullDatum]

\* printf("%02d", n) for 0 <= n < 100
TwoDigits(n) == <<DigitChars[(n \div 10) + 1], DigitChars[(n % 10) + 1]>>

\* asctime(gmtime(&t)) followed by " UTC", for t >= 0 seconds since the Unix
\* epoch: the calendar date stands as the number of the day, followed by
\* hh:mm:ss, the newline asctime ends with, a blank and the zone
asctime_gmtime(t) ==
    Itoa(t \div 86400) \o <<" ">> \o TwoDigits((t % 86400) \div 3600) \o <<":">>
        \o TwoDigits((t % 3600) \div 60) \o <<":">> \o TwoDigits(t % 60)
        \o <<"\n", " ", "U", "T", "C">>

\* timestamptz_in of such a text: the date, the time of day to the second
\* and the zone UTC; the Datum is in microseconds
ParseTimestamp(str) ==
    IF Len(str) < 15 \/ SubSeq(str, Len(str) - 4, Len(str)) # <<"\n", " ", "U", "T", "C">>
    THEN [ok |-> FALSE, val |-> 0]
    ELSE LET n == Len(str) - 5
             day == ParseInt(SubSeq(str, 1, n - 9))
             hh == ParseInt(SubSeq(str, n - 7, n - 6))
             mm == ParseInt(SubSeq(str, n - 4, n - 3))
             ss == ParseInt(SubSeq(str, n - 1, n))
         IN [ok |-> day.ok /\ hh.ok /\ mm.ok /\ ss.ok
                    /\ str[n - 5] = ":" /\ str[n - 2] = ":",
             val |-> (((day.val * 24 + hh.val) * 60 + mm.val) * 60 + ss.val) * 1000000]

\* the input function of the column's type; textin keeps every character
InputFunction(typid, valstr) ==
    CASE typid = BOOLOID -> ParseBool(valstr)
      [] typid \in {TEXTOID, VARCHAROID, BPCHAROID} -> [ok |-> TRUE, val |-> valstr]
      [] typid \in {TIMESTAMPTZOID, TIMESTAMPOID} -> ParseTimestamp(valstr)
      [] OTHER -> ParseInt(valstr)

\* InputFunctionCall(&attinfuncs[i - 1], valstr, ...): a NULL string gives a
\* null Datum without calling the (strict) input function
InputFunctionCall(typid, isnull, valstr) ==
    IF isnull THEN [ok |-> TRUE, datum |-> NullDatum]
    ELSE InputResult(InputFunction(typid, valstr))

\* a value of a remote result row
CassValue(type, isnull, v) == [type |-> type, isnull |-> isnull, val |-> v]

\* pgcass_transferValue
pgcass_transferValue(value) ==
    CASE value.type \in {"CASS_VALUE_TYPE_TINY_INT", "CASS_VALUE_TYPE_SMALL_INT",
                         "CASS_VALUE_TYPE_INT"} -> Itoa(value.val)
      [] value.type \in {"CASS_VALUE_TYPE_BIGINT", "CASS_VALUE_TYPE_COUNTER"} ->
             Itoa(value.val) \o <<" ">>
      [] value.type = "CASS_VALUE_TYPE_BOOLEAN" ->
             IF value.val # 0 THEN <<"t", "r", "u", "e">> ELSE <<"f", "a", "l", "s", "e">>
      [] value.type \in {"CASS_VALUE_TYPE_TEXT", "CASS_VALUE_TYPE_ASCII",
                         "CASS_VALUE_TYPE_VARCHAR"} -> value.val
      [] value.type = "CASS_VALUE_TYPE_TIMESTAMP" ->
             asctime_gmtime(CDiv(value.val, MSECS_PER_SEC))
      [] OTHER -> <<"<unhandled type>">>

(* ------------------------------------------------------------------ *)
(* Scan                                                                *)
(* ------------------------------------------------------------------ *)
\* CassFdwScanState after palloc0; tuples NULL is the empty array
NewScanState ==
    [cass_conn |-> 0, sql_sended |-> FALSE, statement |-> 0,
     read_consistency |-> "CASS_CONSISTENCY_UNKNOWN",
     query |-> << >>, retrieved_attrs |-> << >>, NumberOfColumns |-> 0,
     tuples |-> << >>, num_tuples |-> 0, next_tuple |-> 0, fetch_ct_2 |-> 0,
     eof_reached |-> FALSE]

\* what ExecClearTuple / ExecStoreTuple leave in the scan slot
EmptySlot == [empty |-> TRUE, tuple |-> << >>]
StoredSlot(t) == [empty |-> FALSE, tuple |-> t]

\* cassGetForeignPlan: fdw_private of the ForeignScan
cassGetForeignPlan(r, attrs_used) ==
    LET d == cassDeparseSelectSql(r, attrs_used)
    IN [sql |-> d.sql, targetAttrs |-> << >>, has_returning |-> FALSE,
        retrieved_attrs |-> d.retrieved_attrs]

\* cassBeginForeignScan
cassBeginForeignScan(m, r, private, explain_only) ==
    IF explain_only THEN m
    ELSE [Call(m, "pgcass_GetConnection") EXCEPT
            !.null = FALSE,
            !.fs = [NewScanState EXCEPT
                      !.cass_conn = 1,
                      !.sql_sended = FALSE,
                      !.read_consistency = cassGetReadConsistencyOption(r),
                      !.query = private.sql,
                      !.retrieved_attrs = private.retrieved_attrs]]

\* create_cursor
create_cursor(m) ==
    [Call(m, "cass_statement_new") EXCEPT
        !.st = cass_statement_new(m.fs.query, 0),
        !.fs.statement = 1,
        !.fs.sql_sended = TRUE,
        !.fs.tuples = << >>,
        !.fs.num_tuples = 0,
        !.fs.next_tuple = 0,
        !.fs.fetch_ct_2 = 0,
        !.fs.eof_reached = FALSE]

\* a variant that leaves the statement allocated
close_cursor_KeepStatement(m) == m

\* close_cursor
close_cursor(m) ==
    IF m.fs.statement # 0 THEN Call(m, "cass_statement_free") ELSE m

\* one pass of the loop body: column i of the tuple from the j-th value of
\* the remote row, through its text form (valstr NULL for a null value)
ConvertValue(r, i, cassVal) ==
    InputFunctionCall(r.tupdesc[i].atttypid, cassVal.isnull,
                      IF cassVal.isnull THEN << >> ELSE pgcass_transferValue(cassVal))

\* a variant that stores the j-th value in the j-th column
StoreValue_ByPosition(acc, i, k, inp) ==
    [ok |-> inp.ok, fault |-> acc.fault,
     tuple |-> IF inp.ok THEN [acc.tuple EXCEPT ![k] = inp.datum] ELSE acc.tuple,
     j |-> k]

StoreValue(acc, i, k, inp) ==
    [ok |-> inp.ok, fault |-> acc.fault,
     tuple |-> IF inp.ok THEN [acc.tuple EXCEPT ![i] = inp.datum] ELSE acc.tuple,
     j |-> k]

\* cass_row_get_column(row, j): NULL when the row has no column j
NullValue == [type |-> "NULL", isnull |-> FALSE, val |-> 0]
cass_row_get_column(crow, j) ==
    IF j + 1 \in 1..Len(crow) THEN crow[j + 1] ELSE NullValue

\* the foreach over retrieved_attrs of make_tuple_from_result_row, from list
\* position k on (j = k - 1); acc.tuple holds values[] with nulls[].
\* cass_value_is_null is handed what cass_row_get_column returned: on NULL
\* it reads through a null pointer and the backend faults.
RECURSIVE MakeTupleLoop(_, _, _, _, _)
MakeTupleLoop(crow, r, retrieved_attrs, k, acc) ==
    IF ~acc.ok \/ k > Len(retrieved_attrs) THEN acc
    ELSE IF cass_row_get_column(crow, k - 1).type = NullValue.type
    THEN [acc EXCEPT !.ok = FALSE, !.fault = TRUE]
    ELSE IF retrieved_attrs[k] > 0
    THEN MakeTupleLoop(crow, r, retrieved_attrs, k + 1,
            StoreValue(acc, retrieved_attrs[k], k,
                       ConvertValue(r, retrieved_attrs[k],
                                    cass_row_get_column(crow, k - 1))))
    ELSE MakeTupleLoop(crow, r, retrieved_attrs, k + 1, [acc EXCEPT !.j = k])

\* values[] and nulls[] before the loop: every column null
NoValues(r) ==
    [ok |-> TRUE, fault |-> FALSE, tuple |-> [i \in 1..natts(r) |-> NullDatum], j |-> 0]

\* a variant of the check after the loop that also runs when no column is
\* retrieved
CheckShape_Strict(res, ncolumn) ==
    IF res.fault
    THEN [err |-> Error("null_pointer_read", "SELECT", ""), tuple |-> res.tuple]
    ELSE IF ~res.ok
    THEN [err |-> Error("invalid_input_syntax", "SELECT", ""), tuple |-> res.tuple]
    ELSE IF res.j # ncolumn
    THEN [err |-> Error("result_shape", "SELECT", ""), tuple |-> res.tuple]
    ELSE [err |-> NoError, tuple |-> res.tuple]

\* the check after the loop: the number of values taken against the
\* number of columns of the result
CheckShape(res, ncolumn) ==
    IF res.fault
    THEN [err |-> Error("null_pointer_read", "SELECT", ""), tuple |-> res.tuple]
    ELSE IF ~res.ok
    THEN [err |-> Error("invalid_input_syntax", "SELECT", ""), tuple |-> res.tuple]
    ELSE IF res.j > 0 /\ res.j # ncolumn
    THEN [err |-> Error("result_shape", "SELECT", ""), tuple |-> res.tuple]
    ELSE [err |-> NoError, tuple |-> res.tuple]

\* make_tuple_from_result_row: the tuple, or the error raised
make_tuple_from_result_row(crow, ncolumn, r, retrieved_attrs) ==
    CheckShape(MakeTupleLoop(crow, r, retrieved_attrs, 1, NoValues(r)), ncolumn)

\* pgcass_report_error(elevel, future, clear, sql): reports the remote
\* error at elevel; ERROR does not return
pgcass_report_error(m, elevel, message) ==
    IF elevel = "ERROR" THEN Raise(m, Error("remote_execute", "SELECT", message))
    ELSE m

\* the while loop of fetch_more_data over the result rows, from row k on
StoreTuple(m, k, t) ==
    IF t.err # NoError THEN Raise(m, t.err)
    ELSE [m EXCEPT !.fs.tuples[k] = t.tuple]

RECURSIVE FetchRows(_, _, _, _)
FetchRows(m, r, result, k) ==
    IF m.err # NoError \/ k > Len(result.rows) THEN m
    ELSE FetchRows(StoreTuple(m, k,
                       make_tuple_from_result_row(result.rows[k], m.fs.NumberOfColumns,
                                                  r, m.fs.retrieved_attrs)),
                   r, result, k + 1)

\* a tuple array of palloc0: every entry NULL
NullTuples(n) == [k \in 1..n |-> << >>]

\* the steps of fetch_more_data in their order: the old batch is dropped
\* and the consistency set; the result's shape is recorded and the tuple
\* array allocated; the end-of-data flag is set if control is still here
DropBatch(m) ==
    [m EXCEPT !.fs.tuples = << >>,
              !.st = cass_statement_set_consistency(m.st, m.fs.read_consistency)]

NewBatch(m, result) ==
    [m EXCEPT !.fs.NumberOfColumns = result.ncolumn,
              !.fs.tuples = NullTuples(Len(result.rows)),
              !.fs.num_tuples = Len(result.rows),
              !.fs.next_tuple = 0]

\* a variant that leaves the flag as it was
SetEofReached_Never(m) == m

SetEofReached(m) ==
    IF m.err # NoError THEN m ELSE [m EXCEPT !.fs.eof_reached = TRUE]

\* fetch_more_data; result is the outcome of the remote execute
fetch_more_data(m, r, result) ==
    IF result.ok
    THEN SetEofReached(
             FetchRows(NewBatch(cass_session_execute(DropBatch(m), result.ok,
                                                     result.message),
                                result),
                       r, result, 1))
    ELSE SetEofReached(
             pgcass_report_error(cass_session_execute(DropBatch(m), result.ok,
                                                      result.message),
                                 "ERROR", result.message))

\* the steps of cassIterateForeignScan in their order
CursorIfNotSent(m) == IF ~m.fs.sql_sended THEN create_cursor(m) ELSE m

FetchIfOut(m, r, result) ==
    IF m.fs.next_tuple >= m.fs.num_tuples /\ ~m.fs.eof_reached
    THEN fetch_more_data(m, r, result)
    ELSE m

\* a variant that returns the next tuple without moving past it
ReturnNext_NoAdvance(m) ==
    IF m.err # NoError THEN m
    ELSE IF m.fs.next_tuple >= m.fs.num_tuples
    THEN [m EXCEPT !.ret = EmptySlot]
    ELSE [m EXCEPT !.ret = StoredSlot(m.fs.tuples[m.fs.next_tuple + 1])]

ReturnNext(m) ==
    IF m.err # NoError THEN m
    ELSE IF m.fs.next_tuple >= m.fs.num_tuples
    THEN [m EXCEPT !.ret = EmptySlot]
    ELSE [m EXCEPT !.ret = StoredSlot(m.fs.tuples[m.fs.next_tuple + 1]),
                   !.fs.next_tuple = m.fs.next_tuple + 1]

\* cassIterateForeignScan; m.ret is the slot returned
cassIterateForeignScan(m, r, result) ==
    ReturnNext(FetchIfOut(CursorIfNotSent(m), r, result))

\* a variant that drops the batch so that the next row request fetches again
cassReScanForeignScan_ForceFetch(m) ==
    IF ~m.fs.sql_sended THEN m
    ELSE [m EXCEPT !.fs.tuples = << >>,
                   !.fs.num_tuples = 0,
                   !.fs.next_tuple = 0,
                   !.fs.fetch_ct_2 = 0,
                   !.fs.eof_reached = FALSE]

\* cassReScanForeignScan
cassReScanForeignScan(m) ==
    IF ~m.fs.sql_sended THEN m
    ELSE [m EXCEPT !.fs.next_tuple = 0]

\* cassEndForeignScan
cassEndForeignScan(m) ==
    IF m.null THEN m
    ELSE LET m1 == IF m.fs.sql_sended THEN close_cursor(m) ELSE m
             m2 == Call(m1, "pgcass_ReleaseConnection")
         IN [m2 EXCEPT !.fs.cass_conn = 0]

(* ------------------------------------------------------------------ *)
(* State                                                               *)
(* ------------------------------------------------------------------ *)
VARIABLES
    rel,            \* the foreign table
    operation,      \* "none", "SELECT", "INSERT", "UPDATE" or "DELETE"
    parsetree,      \* the query: target list, updatedCols, onConflictAction
    fdw_private,    \* what the planner callback handed to the executor
    pc,             \* "start", "rewritten", "planned", "begun", "ended", "aborted"
    fmstate,        \* CassFdwModifyState
    fsstate,        \* CassFdwScanState
    slot_out,       \* the slot the last row request returned
    state_null,     \* ri_FdwState (node->fdw_state for a scan) is NULL
    cass_statement, \* the CassStatement object of the operation
    calls,          \* calls on the driver and the connection provider, and errors
    wire,           \* the last request sent by cass_session_execute
    reply,          \* the remote store's answer to it
    error,          \* the error that ended the operation
    row,            \* the row the last row execution was given
    session_timezone, \* what timestamp2tm gives as offset of the session's
                    \* time zone, in seconds
    keyspace_meta,  \* the tables of the remote schema an import names
    commands,       \* the list of statements an import returned
    remote,         \* the remote table: its rows, its rows before the
                    \* statement, and the requests it has received
    scan_plan       \* the ForeignScan under a ModifyTable: its fdw_private
                    \* and its local filtering expressions

vars == <<remote, scan_plan, keyspace_meta, commands, session_timezone, rel, operation, parsetree, fdw_private, pc, fmstate, fsstate, slot_out,
          state_null, cass_statement, calls, wire, reply, error, row>>

\* the query: its target list, the columns the statement names (attrs_used of
\* a scan, insertedCols, updatedCols), the ON CONFLICT action, the clauses of
\* its WHERE and the values its SET assigns
NoQuery == [targetList |-> << >>, attrs_used |-> {}, insertedCols |-> {},
            updatedCols |-> {}, onConflictAction |-> "ONCONFLICT_NONE",
            quals |-> << >>, values |-> << >>]
\* no remote table is modelled; no scan runs under the modify
NoRemote == [rows |-> {}, before |-> {}, requests |-> << >>]
NoScanPlan == [fdw_private |-> NoPlan, local_exprs |-> << >>]
\* row.n counts the row executions
NoRow == [n |-> 0, slot |-> << >>, key |-> NullDatum]

\* the record the handlers run on, and its write-back
Machine ==
    [fm |-> fmstate, fs |-> fsstate, ret |-> slot_out, null |-> state_null,
     st |-> cass_statement, calls |-> calls, wire |-> wire, reply |-> reply,
     tz |-> session_timezone, result |-> << >>, err |-> NoError]

Install(m, next_pc) ==
    /\ fmstate' = m.fm
    /\ fsstate' = m.fs
    /\ slot_out' = m.ret
    /\ state_null' = m.null
    /\ cass_statement' = m.st
    /\ calls' = m.calls
    /\ wire' = m.wire
    /\ reply' = m.reply
    /\ error' = m.err
    /\ pc' = IF m.err # NoError THEN "aborted" ELSE next_pc

InitOn(store, at, r, tz, ks) ==
    /\ remote = store
    /\ scan_plan = NoScanPlan
    /\ keyspace_meta = ks
    /\ commands = << >>
    /\ rel = r
    /\ session_timezone = tz
    /\ operation = "none"
    /\ parsetree = NoQuery
    /\ fdw_private = NoPlan
    /\ pc = at
    /\ fmstate = NewModifyState
    /\ fsstate = NewScanState
    /\ slot_out = EmptySlot
    /\ state_null = TRUE
    /\ cass_statement = NoStatement
    /\ calls = << >>
    /\ wire = NoRequest
    /\ reply = NoReply
    /\ error = NoError
    /\ row = NoRow

InitAt(at, r, tz, ks) == InitOn(NoRemote, at, r, tz, ks)

\* the table exists and no statement has been planned
InitWith(r, tz, ks) == InitAt("start", r, tz, ks)

\* a modify runs on any generated table, with any primary_key option
InitModify == \E r \in Relations : InitWith(r, 0, << >>)

\* a scan never reads the primary_key option: the tables are those without it
InitScan == \E td \in TupDescs : InitWith(Relation(td, NullStr), 0, << >>)

\* the scenario table
InitScenario == InitWith(ScenarioRel, 0, << >>)

\* the tuples the executor hands to a row execution: a Datum for every
\* column, null for a dropped one
Slots(r) ==
    {s \in [1..natts(r) -> {NullDatum} \cup {Datum(v) : v \in 1..natts(r)}] :
        \A i \in 1..natts(r) :
            /\ s[i] \in ColumnDatums(r, i)
            /\ r.tupdesc[i].attisdropped => s[i] = NullDatum}

\* the key a scanned row carries to its UPDATE or DELETE as resjunk column
KeyDatums(r, targetlist) ==
    {NullDatum} \cup
    {Datum(ColumnValue(r, targetlist[k].attno)) :
        k \in {j \in 1..Len(targetlist) : targetlist[j].resjunk}}

\* the outcomes of the remote execute of a write
WriteOutcomes ==
    {[ok |-> TRUE, message |-> ""]} \cup
    {[ok |-> FALSE, message |-> msg] : msg \in RemoteMessages}

\* a set of attribute numbers as the bits of a Bitmapset, and back
Bits(S) == {a - FirstLowInvalidHeapAttributeNumber : a \in S}
Attnos(bits) == {b + FirstLowInvalidHeapAttributeNumber : b \in bits}

\* the columns an INSERT names: any set of live columns
ColSets(r) == {Bits(S) : S \in SUBSET LiveAttnos(r)}

\* the SET columns an UPDATE names: a non-empty set of live columns
UpdatedColSets(r) == ColSets(r) \ {{}}

\* the target list of the parsed UPDATE: one entry for each SET column
UpdateTargetList(r, updatedCols) ==
    LET attnos == UpdatedAttnos(updatedCols)
    IN [k \in 1..Len(attnos) |-> TLE(r.tupdesc[attnos[k]].attname, k, attnos[k], FALSE)]

(* ------------------------------------------------------------------ *)
(* Modify: the callbacks in the order the executor calls them          *)
(* ------------------------------------------------------------------ *)
\* rewriting an UPDATE or DELETE
AddForeignUpdateTargets ==
    /\ pc = "start"
    /\ \E op \in {"UPDATE", "DELETE"} :
       \E updatedCols \in (IF op = "UPDATE" THEN UpdatedColSets(rel) ELSE {{}}) :
          LET res == cassAddForeignUpdateTargets(rel, UpdateTargetList(rel, updatedCols))
          IN /\ operation' = op
             /\ parsetree' = [NoQuery EXCEPT !.targetList = res.targetList,
                                              !.updatedCols = updatedCols]
             /\ error' = res.err
             /\ calls' = IF res.err # NoError THEN Append(calls, "ereport") ELSE calls
             /\ pc' = IF res.err # NoError THEN "aborted" ELSE "rewritten"
    /\ UNCHANGED <<remote, scan_plan, keyspace_meta, commands, session_timezone, rel, fdw_private, fmstate, fsstate, slot_out, state_null,
                    cass_statement, wire, reply, row>>

PlanModify(op, query) ==
    LET res == cassPlanForeignModify(rel, op, query, query.onConflictAction)
    IN /\ operation' = op
       /\ parsetree' = query
       /\ fdw_private' = res.fdw_private
       /\ error' = res.err
       /\ calls' = IF res.err # NoError THEN Append(calls, "ereport") ELSE calls
       /\ pc' = IF res.err # NoError THEN "aborted" ELSE "planned"
       /\ UNCHANGED <<remote, scan_plan, keyspace_meta, commands, session_timezone, rel, fmstate, fsstate, slot_out, state_null, cass_statement,
                       wire, reply, row>>

PlanForeignModify ==
    \/ /\ pc = "start"
       /\ \E oc \in {"ONCONFLICT_NONE", "ONCONFLICT_NOTHING", "ONCONFLICT_UPDATE"},
             insertedCols \in ColSets(rel) :
             PlanModify("INSERT", [NoQuery EXCEPT !.onConflictAction = oc,
                                                  !.insertedCols = insertedCols])
    \/ /\ pc = "rewritten"
       /\ PlanModify(operation, parsetree)

BeginForeignModify ==
    /\ pc = "planned"
    /\ operation \in {"INSERT", "UPDATE", "DELETE"}
    /\ \E explain_only \in BOOLEAN :
          LET m == cassBeginForeignModify(Machine, rel, operation, fdw_private,
                                          parsetree.targetList, explain_only)
          IN Install(m, "begun")
    /\ UNCHANGED <<remote, scan_plan, keyspace_meta, commands, session_timezone, rel, operation, parsetree, fdw_private, row>>

\* row executions are issued only on an initialised modify state
CanExecRow ==
    /\ pc = "begun"
    /\ ~state_null
    /\ Count(calls, "cass_session_execute") < MaxRows

ExecForeignInsert ==
    /\ CanExecRow
    /\ operation = "INSERT"
    /\ \E slot \in Slots(rel), rc \in WriteOutcomes :
          /\ Install(cassExecForeignInsert(Machine, slot, rc.ok, rc.message), "begun")
          /\ row' = [n |-> row.n + 1, slot |-> slot, key |-> NullDatum]
    /\ UNCHANGED <<remote, scan_plan, keyspace_meta, commands, session_timezone, rel, operation, parsetree, fdw_private>>

ExecForeignUpdate ==
    /\ CanExecRow
    /\ operation = "UPDATE"
    /\ \E slot \in Slots(rel), key \in KeyDatums(rel, parsetree.targetList),
          rc \in WriteOutcomes :
          /\ Install(cassExecPKPredWrite(Machine, slot, key, "UPDATE", rc.ok, rc.message),
                     "begun")
          /\ row' = [n |-> row.n + 1, slot |-> slot, key |-> key]
    /\ UNCHANGED <<remote, scan_plan, keyspace_meta, commands, session_timezone, rel, operation, parsetree, fdw_private>>

ExecForeignDelete ==
    /\ CanExecRow
    /\ operation = "DELETE"
    /\ \E slot \in Slots(rel), key \in KeyDatums(rel, parsetree.targetList),
          rc \in WriteOutcomes :
          /\ Install(cassExecPKPredWrite(Machine, slot, key, "DELETE", rc.ok, rc.message),
                     "begun")
          /\ row' = [n |-> row.n + 1, slot |-> slot, key |-> key]
    /\ UNCHANGED <<remote, scan_plan, keyspace_meta, commands, session_timezone, rel, operation, parsetree, fdw_private>>

EndForeignModify ==
    /\ pc = "begun"
    /\ operation \in {"INSERT", "UPDATE", "DELETE"}
    /\ Install(cassEndForeignModify(Machine), "ended")
    /\ UNCHANGED <<remote, scan_plan, keyspace_meta, commands, session_timezone, rel, operation, parsetree, fdw_private, row>>

NextModify ==
    \/ AddForeignUpdateTargets
    \/ PlanForeignModify
    \/ BeginForeignModify
    \/ ExecForeignInsert
    \/ ExecForeignUpdate
    \/ ExecForeignDelete
    \/ EndForeignModify

(* ------------------------------------------------------------------ *)
(* Scan: the callbacks in the order the executor calls them            *)
(* ------------------------------------------------------------------ *)
\* the columns a query needs, as bits: live columns and the whole-row marker
AttrsUsedSets(r) == {Bits(S) : S \in SUBSET ({0} \cup LiveAttnos(r))}

\* the remote type of the column a local column is mapped to
RemoteTypeOf(typid) ==
    CASE typid = INT2OID -> "CASS_VALUE_TYPE_SMALL_INT"
      [] typid = INT4OID -> "CASS_VALUE_TYPE_INT"
      [] typid = INT8OID -> "CASS_VALUE_TYPE_BIGINT"
      [] typid = BOOLOID -> "CASS_VALUE_TYPE_BOOLEAN"
      [] typid \in {TEXTOID, VARCHAROID, BPCHAROID} -> "CASS_VALUE_TYPE_TEXT"
      [] typid \in {TIMESTAMPTZOID, TIMESTAMPOID} -> "CASS_VALUE_TYPE_TIMESTAMP"
      [] OTHER -> "CASS_VALUE_TYPE_DECIMAL"

\* the rows the remote store answers the SELECT with: one value for each
\* selected column, a single null for the literal NULL of an empty list.
RemoteRows(r, retrieved_attrs) ==
    IF retrieved_attrs = << >>
    THEN {<<CassValue("CASS_VALUE_TYPE_UNKNOWN", TRUE, 0)>>}
    ELSE {[k \in 1..Len(retrieved_attrs) |->
              CassValue(RemoteTypeOf(r.tupdesc[retrieved_attrs[k]].atttypid),
                        isnull[k],
                        IF isnull[k] THEN 0 ELSE ColumnValue(r, retrieved_attrs[k]))] :
             isnull \in [1..Len(retrieved_attrs) -> BOOLEAN]}

RemoteResults(r, retrieved_attrs) ==
    {[ok |-> FALSE, ncolumn |-> 0, rows |-> << >>, message |-> msg] :
        msg \in RemoteMessages}
    \cup
    {[ok |-> TRUE, ncolumn |-> Len(rows[1]), rows |-> rows, message |-> ""] :
        rows \in UNION {[1..n -> RemoteRows(r, retrieved_attrs)] : n \in 1..MaxRows}}
    \cup
    {[ok |-> TRUE,
      ncolumn |-> IF retrieved_attrs = << >> THEN 1 ELSE Len(retrieved_attrs),
      rows |-> << >>, message |-> ""]}

\* the remote store is asked only when the row request fetches
NoResult == [ok |-> TRUE, ncolumn |-> 0, rows |-> << >>, message |-> ""]
WillFetch ==
    \/ ~fsstate.sql_sended
    \/ fsstate.next_tuple >= fsstate.num_tuples /\ ~fsstate.eof_reached

GetForeignPlan ==
    /\ pc = "start"
    /\ \E attrs_used \in AttrsUsedSets(rel) :
          /\ operation' = "SELECT"
          /\ parsetree' = [NoQuery EXCEPT !.attrs_used = attrs_used]
          /\ fdw_private' = cassGetForeignPlan(rel, attrs_used)
          /\ pc' = "planned"
    /\ UNCHANGED <<remote, scan_plan, keyspace_meta, commands, session_timezone, rel, fmstate, fsstate, slot_out, state_null,
                   cass_statement, calls, wire, reply, error, row>>

BeginForeignScan ==
    /\ pc = "planned"
    /\ operation = "SELECT"
    /\ \E explain_only \in BOOLEAN :
          Install(cassBeginForeignScan(Machine, rel, fdw_private, explain_only), "begun")
    /\ UNCHANGED <<remote, scan_plan, keyspace_meta, commands, session_timezone, rel, operation, parsetree, fdw_private, row>>

\* rows are requested and re-scans issued only on an initialised scan state
IterateForeignScan ==
    /\ pc = "begun"
    /\ operation = "SELECT"
    /\ ~state_null
    /\ \E result \in (IF WillFetch THEN RemoteResults(rel, fsstate.retrieved_attrs)
                        ELSE {NoResult}) :
          Install(cassIterateForeignScan(Machine, rel, result), "begun")
    /\ UNCHANGED <<remote, scan_plan, keyspace_meta, commands, session_timezone, rel, operation, parsetree, fdw_private, row>>

ReScanForeignScan ==
    /\ pc = "begun"
    /\ operation = "SELECT"
    /\ ~state_null
    /\ Install(cassReScanForeignScan(Machine), "begun")
    /\ UNCHANGED <<remote, scan_plan, keyspace_meta, commands, session_timezone, rel, operation, parsetree, fdw_private, row>>

EndForeignScan ==
    /\ pc = "begun"
    /\ operation = "SELECT"
    /\ Install(cassEndForeignScan(Machine), "ended")
    /\ UNCHANGED <<remote, scan_plan, keyspace_meta, commands, session_timezone, rel, operation, parsetree, fdw_private, row>>

NextScan ==
    \/ GetForeignPlan
    \/ BeginForeignScan
    \/ IterateForeignScan
    \/ ReScanForeignScan
    \/ EndForeignScan

SpecScan == InitScan /\ [][NextScan]_vars

(* ------------------------------------------------------------------ *)
(* A row request answered by a result of any shape                     *)
(* ------------------------------------------------------------------ *)
\* a remote row of ncolumn columns: the first columns hold what the selected
\* columns hold, a further column holds an int
ShapedRows(r, retrieved_attrs, ncolumn) ==
    {[j \in 1..ncolumn |->
         CassValue(IF j <= Len(retrieved_attrs)
                   THEN RemoteTypeOf(r.tupdesc[retrieved_attrs[j]].atttypid)
                   ELSE "CASS_VALUE_TYPE_INT",
                   isnull[j],
                   IF isnull[j] THEN 0
                   ELSE IF j <= Len(retrieved_attrs)
                   THEN ColumnValue(r, retrieved_attrs[j])
                   ELSE 1)] :
        isnull \in [1..ncolumn -> BOOLEAN]}

\* a result of one row, of any number of columns
ShapedResults(r, retrieved_attrs) ==
    UNION {{[ok |-> TRUE, ncolumn |-> n, rows |-> <<crow>>, message |-> ""] :
               crow \in ShapedRows(r, retrieved_attrs, n)} :
           n \in 0..(MaxAtts + 1)}

\* cass_value_is_null on the NULL that cass_row_get_column returns for a
\* column the row does not have is undefined: the backend faults, or the
\* read gives a null, or a value of no known type
BeyondOutcomes == {"fault", "null", "value"}
AsRead(crow, n, u) ==
    IF u = "fault" THEN crow
    ELSE crow \o [k \in 1..(n - Len(crow)) |->
                     CassValue("CASS_VALUE_TYPE_UNKNOWN", u = "null", 0)]

\* the scan's tables: any table, no primary_key option
InitTuple == \E td \in TupDescs : InitOn(NoRemote, "start", Relation(td, NullStr), 0, << >>)

\* a row request; row.slot keeps the remote row of the fetch
IterateAnyShape ==
    /\ pc = "begun"
    /\ operation = "SELECT"
    /\ ~state_null
    /\ \E result \in (IF WillFetch THEN ShapedResults(rel, fsstate.retrieved_attrs)
                        ELSE {NoResult}),
          u \in BeyondOutcomes :
          /\ Install(cassIterateForeignScan(
                         Machine, rel,
                         [result EXCEPT !.rows =
                             [k \in 1..Len(result.rows) |->
                                 AsRead(result.rows[k], Len(fsstate.retrieved_attrs), u)]]),
                     "begun")
          /\ row' = IF WillFetch
                    THEN [n |-> row.n + 1, slot |-> result.rows[1], key |-> NullDatum]
                    ELSE row
    /\ UNCHANGED <<remote, scan_plan, keyspace_meta, commands, session_timezone, rel,
                   operation, parsetree, fdw_private>>

NextTuple ==
    \/ GetForeignPlan
    \/ BeginForeignScan
    \/ IterateAnyShape
    \/ EndForeignScan

SpecTuple == InitTuple /\ [][NextTuple]_vars

SpecModify == InitModify /\ [][NextModify]_vars

SpecScenario == InitScenario /\ [][NextModify]_vars

\* tables whose key column's name is the start of another column's name
\* (id and id2), in either order, and a table where it is not
KeyTables ==
    UNION {{<<Attr(<<"i", "d">>, t1), Attr(<<"i", "d", "2">>, t2)>>,
            <<Attr(<<"i", "d", "2">>, t2), Attr(<<"i", "d">>, t1)>>,
            <<Attr(<<"v">>, t2), Attr(<<"i", "d">>, t1)>>} :
           t1 \in {INT4OID, INT8OID}, t2 \in {INT4OID, INT8OID}}

InitKey == \E td \in KeyTables : InitWith(Relation(td, <<"i", "d">>), 0, << >>)

SpecKey == InitKey /\ [][NextModify]_vars

(* ------------------------------------------------------------------ *)
(* Planning on tables whose columns have a column_name option          *)
(* ------------------------------------------------------------------ *)
\* a column with the column_name option (NullStr: without)
NamedAttr(name, typid, column_name) ==
    [Attr(name, typid) EXCEPT !.column_name = column_name]

\* tables (k, v): the key column's name is a plain or a mixed-case name, each
\* column has the column_name option or not; the key option is the key
\* column's name
NamedRelations ==
    {Relation(<<NamedAttr(k, INT4OID, kn), NamedAttr(<<"v">>, INT4OID, vn)>>, k) :
        k \in {<<"i", "d">>, <<"I", "d">>},
        kn \in {NullStr, <<"p", "k">>},
        vn \in {NullStr, <<"w">>}}

InitName == \E r \in NamedRelations : InitWith(r, 0, << >>)

\* the statements are deparsed when they are planned
NextName ==
    \/ AddForeignUpdateTargets
    \/ PlanForeignModify
    \/ GetForeignPlan

SpecName == InitName /\ [][NextName]_vars

(* ------------------------------------------------------------------ *)
(* One value through the write path and back through the read path     *)
(* ------------------------------------------------------------------ *)
\* the types a column of a foreign table is given: those the import maps a
\* remote type to and those of the same family, and one outside
TypedColumns ==
    {INT2OID, INT4OID, INT8OID, FLOAT4OID, FLOAT8OID, BOOLOID, TEXTOID, VARCHAROID,
     BPCHAROID, TIMESTAMPOID, TIMESTAMPTZOID, INETOID, UUIDOID, NUMERICOID}

\* the offsets of the session's time zone: UTC, one hour west, one hour east
TimeZoneOffsets == {0, 3600, 0 - 3600}

\* values of a type: the ends of the 16-bit range; 32-bit and 64-bit values
\* up to the largest the checker's integers hold; strings with blanks;
\* instants in microseconds on and off a whole second
TypeValues(typid) ==
    CASE typid = INT2OID -> {0 - 32768, 0 - 1, 0, 7, 32767}
      [] typid \in {INT4OID, INT8OID} -> {0 - 2147483647, 0 - 10, 0, 42, 2147483647}
      [] typid = BOOLOID -> {0, 1}
      [] typid \in {TEXTOID, VARCHAROID, BPCHAROID} ->
             {<< >>, <<"a">>, <<" ", "a", "b", " ">>, <<"1">>}
      [] typid \in {TIMESTAMPTZOID, TIMESTAMPOID} ->
             {0, 999999, 1000000, 1500000, 61000000, 2147000000}
      [] OTHER -> {0, 1}

\* the types whose values the read path of this model converts
ReadTypes ==
    {INT2OID, INT4OID, INT8OID, BOOLOID, TEXTOID, VARCHAROID, BPCHAROID,
     TIMESTAMPOID, TIMESTAMPTZOID}

\* a table of one column of any of the types, in a session of any time zone
InitType ==
    \E typid \in TypedColumns, tz \in TimeZoneOffsets :
        InitWith(Relation(<<Attr(ColName(1), typid)>>, NullStr), tz, << >>)

\* a non-null value of the column is bound as the parameter of a write
BindParam ==
    /\ pc = "start"
    /\ \E value \in TypeValues(rel.tupdesc[1].atttypid) :
          /\ Install(bind_cass_statement_param(
                         [Machine EXCEPT !.st = cass_statement_new(<< >>, 1)],
                         rel.tupdesc[1].atttypid, value, 0),
                     "bound")
          /\ row' = [n |-> 1, slot |-> <<Datum(value)>>, key |-> NullDatum]
    /\ operation' = "INSERT"
    /\ UNCHANGED <<remote, scan_plan, keyspace_meta, commands, session_timezone, rel, parsetree, fdw_private>>

\* the remote store returns the value it was sent, as a value of the remote
\* column's type, and the read path makes the tuple of it
ReadBack ==
    /\ pc = "bound"
    /\ rel.tupdesc[1].atttypid \in ReadTypes
    /\ LET t == make_tuple_from_result_row(
                    <<CassValue(RemoteTypeOf(rel.tupdesc[1].atttypid), FALSE,
                                cass_statement.params[1].val)>>,
                    1, rel, <<1>>)
       IN /\ slot_out' = StoredSlot(t.tuple)
          /\ error' = t.err
          /\ calls' = IF t.err # NoError THEN Append(calls, "ereport") ELSE calls
          /\ pc' = IF t.err # NoError THEN "aborted" ELSE "read"
    /\ UNCHANGED <<remote, scan_plan, keyspace_meta, commands, session_timezone, rel, operation, parsetree, fdw_private, row,
                    fmstate, fsstate, state_null, cass_statement, wire, reply>>

NextType ==
    \/ BindParam
    \/ ReadBack

SpecType == InitType /\ [][NextType]_vars

(* ------------------------------------------------------------------ *)
(* IMPORT FOREIGN SCHEMA                                               *)
(* ------------------------------------------------------------------ *)
\* pgcass_transformDataType: the name of the local type, or none
pgcass_transformDataType(type) ==
    CASE type = "CASS_VALUE_TYPE_TINY_INT" -> [valid |-> FALSE, datatype |-> "tinyint"]
      [] type = "CASS_VALUE_TYPE_SMALL_INT" -> [valid |-> TRUE, datatype |-> "smallint"]
      [] type = "CASS_VALUE_TYPE_INT" -> [valid |-> TRUE, datatype |-> "integer"]
      [] type \in {"CASS_VALUE_TYPE_BIGINT", "CASS_VALUE_TYPE_COUNTER"} ->
             [valid |-> TRUE, datatype |-> "bigint"]
      [] type = "CASS_VALUE_TYPE_BOOLEAN" -> [valid |-> TRUE, datatype |-> "boolean"]
      [] type = "CASS_VALUE_TYPE_DOUBLE" ->
             [valid |-> TRUE, datatype |-> "double precision"]
      [] type = "CASS_VALUE_TYPE_FLOAT" -> [valid |-> TRUE, datatype |-> "real"]
      [] type = "CASS_VALUE_TYPE_DECIMAL" -> [valid |-> FALSE, datatype |-> "decimal"]
      [] type \in {"CASS_VALUE_TYPE_TEXT", "CASS_VALUE_TYPE_ASCII",
                   "CASS_VALUE_TYPE_VARCHAR"} -> [valid |-> TRUE, datatype |-> "text"]
      [] type = "CASS_VALUE_TYPE_TIMESTAMP" ->
             [valid |-> TRUE, datatype |-> "timestamp(0) with time zone"]
      [] type = "CASS_VALUE_TYPE_INET" -> [valid |-> TRUE, datatype |-> "inet"]
      [] type = "CASS_VALUE_TYPE_UUID" -> [valid |-> TRUE, datatype |-> "uuid"]
      [] type = "CASS_VALUE_TYPE_LIST" -> [valid |-> FALSE, datatype |-> "list"]
      [] type = "CASS_VALUE_TYPE_MAP" -> [valid |-> FALSE, datatype |-> "map"]
      [] OTHER -> [valid |-> FALSE, datatype |-> "unknown"]

\* one column appended to buf, or the error pgcass_transformDataType raises
AppendColumn(acc, idx, column_meta, dt) ==
    IF ~dt.valid THEN [acc EXCEPT !.err = Error("type_not_supported", "", dt.datatype)]
    ELSE [acc EXCEPT !.buf = @ \o (IF idx > 1 THEN <<Lit(", ")>> ELSE << >>)
                                \o <<Lit("\""), Raw(column_meta.name), Lit("\" "),
                                      Lit(dt.datatype)>>]

\* the loop through the columns of a table, from column idx on
RECURSIVE ImportColumns(_, _, _)
ImportColumns(table_meta, idx, acc) ==
    IF acc.err # NoError \/ idx > Len(table_meta.columns) THEN acc
    ELSE ImportColumns(table_meta, idx + 1,
             AppendColumn(acc, idx, table_meta.columns[idx],
                          pgcass_transformDataType(table_meta.columns[idx].type)))

\* the statement of one table added to the result, or the error raised
AppendTable(m, table_meta, remote_schema, servername, cols) ==
    IF cols.err # NoError THEN Raise(m, cols.err)
    ELSE [m EXCEPT !.result = Append(@,
             cols.buf \o <<Lit(") SERVER \""), Raw(servername), Lit("\" OPTIONS (schema_name '"),
                           Raw(remote_schema), Lit("', table_name '"),
                           Raw(table_meta.name), Lit("')")>>)]

\* the loop through the tables of the schema, from table k on
RECURSIVE ImportTables(_, _, _, _, _)
ImportTables(m, tables, remote_schema, servername, k) ==
    IF m.err # NoError \/ k > Len(tables) THEN m
    ELSE ImportTables(
             AppendTable(m, tables[k], remote_schema, servername,
                 ImportColumns(tables[k], 1,
                     [err |-> NoError,
                      buf |-> <<Lit("CREATE FOREIGN TABLE \""), Raw(tables[k].name),
                                Lit("\" (")>>])),
             tables, remote_schema, servername, k + 1)

\* cassImportForeignSchema: m.result is the list built so far; it is returned
\* when control reaches the end. meta.found says whether the remote schema
\* exists.
cassImportForeignSchema(m, remote_schema, servername, meta) ==
    IF ~meta.found
    THEN Call(Call(m, "pgcass_GetConnection"), "ereport_warning")
    ELSE ImportTables(Call(m, "pgcass_GetConnection"), meta.tables,
                      remote_schema, servername, 1)

\* the remote types of the columns of the imported tables: two the import
\* maps and the five kinds it does not
ImportedTypes ==
    {"CASS_VALUE_TYPE_INT", "CASS_VALUE_TYPE_TEXT", "CASS_VALUE_TYPE_LIST",
     "CASS_VALUE_TYPE_MAP", "CASS_VALUE_TYPE_TINY_INT", "CASS_VALUE_TYPE_DECIMAL",
     "CASS_VALUE_TYPE_DURATION"}

\* the column lists of a remote table
ColumnMetas ==
    UNION {{[i \in 1..n |-> [name |-> ColName(i), type |-> types[i]]] :
               types \in [1..n -> ImportedTypes]} : n \in 1..MaxColumns}

\* the remote schemas: absent, or one to MaxTables tables named t1, t2, ...
KeyspaceMetas ==
    {[found |-> FALSE, tables |-> << >>]} \cup
    UNION {{[found |-> TRUE,
             tables |-> [k \in 1..n |-> [name |-> <<"t", Digit[k]>>, columns |-> cols[k]]]] :
               cols \in [1..n -> ColumnMetas]} : n \in 1..MaxTables}

InitImport ==
    \E meta \in KeyspaceMetas :
        InitWith(Relation(<<Attr(ColName(1), INT4OID)>>, NullStr), 0, meta)

\* IMPORT FOREIGN SCHEMA ks FROM SERVER cass_serv: the list is returned only
\* when no error was raised
ImportForeignSchema ==
    /\ pc = "start"
    /\ LET m == cassImportForeignSchema(Machine,
                                        <<"k", "s">>, <<"cass_serv">>, keyspace_meta)
       IN /\ Install(m, "imported")
          /\ commands' = IF m.err # NoError THEN commands ELSE m.result
    /\ operation' = "IMPORT"
    /\ UNCHANGED <<remote, scan_plan, keyspace_meta, session_timezone, rel, parsetree, fdw_private, row>>

NextImport ==
    \/ ImportForeignSchema

SpecImport == InitImport /\ [][NextImport]_vars

(* ------------------------------------------------------------------ *)
(* CREATE FOREIGN TABLE ... OPTIONS (...), then a scan or a modify       *)
(* ------------------------------------------------------------------ *)
\* values of a consistency option: absent, the eleven names, a name in
\* lower case
ConsistencyValues ==
    {"", "ANY", "ONE", "TWO", "THREE", "QUORUM", "ALL", "LOCAL_QUORUM",
     "EACH_QUORUM", "SERIAL", "LOCAL_SERIAL", "LOCAL_ONE", "one"}

\* the tables defined: (c1 int) with primary_key c1 and either any read
\* level with some write levels, or some read levels with any write level,
\* or no level and any of schema_name, table_name and query present or not
DefinedTables ==
    LET base == Relation(<<Attr(ColName(1), INT4OID)>>, ColName(1))
    IN {[base EXCEPT !.read_consistency = rc, !.write_consistency = wc] :
           rc \in ConsistencyValues, wc \in {"", "ANY", "ALL", "one"}}
       \cup
       {[base EXCEPT !.read_consistency = rc, !.write_consistency = wc] :
           rc \in {"", "QUORUM"}, wc \in ConsistencyValues}
       \cup
       {[base EXCEPT !.schema_name = sn, !.table_name = tn, !.query = q] :
           sn \in {NullStr, <<"ks">>}, tn \in {NullStr, <<"t">>},
           q \in {NullStr, <<"q">>}}

InitOptions ==
    \E r \in DefinedTables : InitAt("create", r, 0, << >>)

\* CREATE FOREIGN TABLE: the validator is given the options of the table
CreateForeignTable ==
    /\ pc = "create"
    /\ error' = cstar_fdw_validator(rel)
    /\ calls' = IF cstar_fdw_validator(rel) # NoError THEN Append(calls, "ereport")
                ELSE calls
    /\ pc' = IF cstar_fdw_validator(rel) # NoError THEN "aborted" ELSE "start"
    /\ UNCHANGED <<remote, scan_plan, keyspace_meta, commands, session_timezone, rel, operation, parsetree,
                    fdw_private, fmstate, fsstate, slot_out, state_null, cass_statement,
                    wire, reply, row>>

NextOptions ==
    \/ CreateForeignTable
    \/ NextScan
    \/ NextModify

SpecOptions == InitOptions /\ [][NextOptions]_vars

(* ------------------------------------------------------------------ *)
(* An UPDATE or DELETE with a WHERE, against a remote table            *)
(* ------------------------------------------------------------------ *)
\* a clause "column = value" of a WHERE, and the columns a list of clauses
\* mentions (pull_varattnos)
Clause(attno, v) == [attno |-> attno, val |-> v]
pull_varattnos(clauses) == Bits({clauses[k].attno : k \in 1..Len(clauses)})

\* a variant that classifies every clause as remote
cassClassifyConditions_AllRemote(input_conds) ==
    [remote_conds |-> input_conds, local_conds |-> << >>]

\* cassClassifyConditions: every clause is appended to local_conds
cassClassifyConditions(input_conds) ==
    [remote_conds |-> << >>, local_conds |-> input_conds]

\* cassGetForeignRelSize: attrs_used is the columns of the rel's target and
\* of the local conditions
RelSize(conds, reltarget) ==
    [remote_conds |-> conds.remote_conds, local_conds |-> conds.local_conds,
     attrs_used |-> Bits(reltarget) \cup pull_varattnos(conds.local_conds)]
cassGetForeignRelSize(reltarget, baserestrictinfo) ==
    RelSize(cassClassifyConditions(baserestrictinfo), reltarget)

\* make_foreignscan as cassGetForeignPlan calls it: the local filtering
\* expressions are the scan clauses the planner passed, whatever fpinfo holds
make_foreignscan(private, scan_clauses) ==
    [fdw_private |-> private, local_exprs |-> scan_clauses]

\* ExecQual on a scanned tuple: every clause is true (a null is not equal)
ExecQual(clauses, tuple) ==
    \A k \in 1..Len(clauses) :
        /\ ~tuple[clauses[k].attno].isnull
        /\ tuple[clauses[k].attno].val = clauses[k].val

\* the column names of a statement's text in the order they are written:
\* the names other than the schema and the table
StatementColumns(sql) ==
    LET names == SelectSeq(sql, LAMBDA tok : tok.k # "lit")
        cols == IF sql # << >> /\ sql[1] = Lit("SELECT ")
                THEN SubSeq(names, 1, Len(names) - 2)
                ELSE SubSeq(names, 3, Len(names))
    IN [k \in 1..Len(cols) |-> cols[k].t]

\* The remote table has the columns of the foreign table, under their names,
\* and the column the primary_key option names as its key.
RemoteKey(r) == get_attnum(r, cassGetPKOption(r))
KeyOf(r, trow) == trow[RemoteKey(r)].val

\* the rows a SELECT returns, in key order
RowsInKeyOrder(r, rows) ==
    LET keys == SortedSeq({KeyOf(r, trow) : trow \in rows})
    IN [i \in 1..Len(keys) |-> CHOOSE trow \in rows : KeyOf(r, trow) = keys[i]]

SelectedValues(r, trow, retrieved_attrs) ==
    IF retrieved_attrs = << >>
    THEN <<CassValue("CASS_VALUE_TYPE_UNKNOWN", TRUE, 0)>>
    ELSE [k \in 1..Len(retrieved_attrs) |->
             CassValue(RemoteTypeOf(r.tupdesc[retrieved_attrs[k]].atttypid),
                       trow[retrieved_attrs[k]].isnull,
                       trow[retrieved_attrs[k]].val)]

SelectFrom(r, ordered, retrieved_attrs) ==
    [ok |-> TRUE,
     ncolumn |-> IF retrieved_attrs = << >> THEN 1 ELSE Len(retrieved_attrs),
     rows |-> [i \in 1..Len(ordered) |-> SelectedValues(r, ordered[i], retrieved_attrs)],
     message |-> ""]

\* the remote table's answer to a SELECT without a WHERE: every row
RemoteSelect(r, rows, retrieved_attrs) ==
    SelectFrom(r, RowsInKeyOrder(r, rows), retrieved_attrs)

\* the answers to a SELECT: the rows, or a failure
SelectOutcomes(r, rows, retrieved_attrs) ==
    {RemoteSelect(r, rows, retrieved_attrs)} \cup
    {[ok |-> FALSE, ncolumn |-> 0, rows |-> << >>, message |-> msg] :
        msg \in RemoteMessages}

\* the value a bound parameter stores
ParamDatum(p) == IF p.kind = "null" THEN NullDatum ELSE Datum(p.val)

\* the key column and key value of a keyed write: the last name and the last
\* parameter; the columns assigned: the names before it
WriteKeyColumn(r, request) ==
    get_attnum(r, StatementColumns(request.query)[Len(StatementColumns(request.query))])
WriteKey(request) == request.params[Len(request.params)]
AssignedColumns(r, request) ==
    [k \in 1..(Len(StatementColumns(request.query)) - 1) |->
        get_attnum(r, StatementColumns(request.query)[k])]

\* a write is refused when it assigns the key column or its key is not a value
RemoteAccepts(r, request) ==
    /\ WriteKey(request).kind \notin {"null", "unset"}
    /\ Len(request.params) = Len(StatementColumns(request.query))
    /\ \A k \in 1..Len(AssignedColumns(r, request)) :
          /\ AssignedColumns(r, request)[k] # WriteKeyColumn(r, request)
          /\ request.params[k].kind # "unset"

\* the row a keyed UPDATE assigns to: the row with the key, or a new row
\* with only the key (upsert)
RowWithKey(r, rows, keycol, key) ==
    IF \E trow \in rows : trow[keycol].val = key
    THEN CHOOSE trow \in rows : trow[keycol].val = key
    ELSE [i \in 1..natts(r) |-> IF i = keycol THEN Datum(key) ELSE NullDatum]

Assign(r, old, assigned, params) ==
    [i \in 1..natts(r) |->
        IF \E k \in 1..Len(assigned) : assigned[k] = i
        THEN ParamDatum(params[CHOOSE k \in 1..Len(assigned) : assigned[k] = i])
        ELSE old[i]]

\* the remote table after an accepted keyed write
RemoteWrite(r, rows, request) ==
    IF Head(request.query) = Lit("DELETE FROM ")
    THEN {trow \in rows : trow[WriteKeyColumn(r, request)].val # WriteKey(request).val}
    ELSE {trow \in rows : trow[WriteKeyColumn(r, request)].val # WriteKey(request).val}
         \cup {Assign(r, RowWithKey(r, rows, WriteKeyColumn(r, request),
                                   WriteKey(request).val),
                      AssignedColumns(r, request), request.params)}

\* the foreign tables of the statements: three columns of a type that reads
\* and writes, any one of them the key
StatementTables ==
    {r \in {Relation(td, pk) : td \in TupDescsOfLen(3), pk \in {ColName(i) : i \in 1..3}} :
        \A i \in 1..natts(r) : r.tupdesc[i].atttypid = INT4OID}

\* the rows of the remote table: a key of its own and null or 1 elsewhere
RemoteRowsOf(r) ==
    {trow \in [1..natts(r) -> {NullDatum} \cup {Datum(v) : v \in 1..MaxRows}] :
        /\ ~trow[RemoteKey(r)].isnull
        /\ \A i \in 1..natts(r) : i # RemoteKey(r) => trow[i] \in {NullDatum, Datum(1)}}
RemoteTables(r) ==
    {rows \in SUBSET RemoteRowsOf(r) :
        /\ Cardinality(rows) <= MaxRows
        /\ \A a \in rows, b \in rows : KeyOf(r, a) = KeyOf(r, b) => a = b}

\* the WHERE of the statement: no clause, or one clause on any column
Quals(r) == {<< >>} \cup {<<Clause(a, 1)>> : a \in LiveAttnos(r)}

\* the values SET assigns: null, or a value no stored row holds
SetValues(r, updatedCols) ==
    {vals \in [1..natts(r) -> {NullDatum, Datum(MaxRows + 1)}] :
        \A i \in 1..natts(r) : i \notin Attnos(updatedCols) => vals[i] = NullDatum}

InitStatement ==
    \E r \in StatementTables : \E rows \in RemoteTables(r) :
        InitOn([rows |-> rows, before |-> rows, requests |-> << >>],
               "start", r, 0, << >>)

\* the columns the plan above the scan needs: every column for an UPDATE,
\* whose new tuple is built from the old one, and the resjunk key column
Reltarget(op, query) ==
    (IF op = "UPDATE" THEN LiveAttnos(rel) ELSE {})
    \cup {query.targetList[k].attno :
            k \in {j \in 1..Len(query.targetList) : query.targetList[j].resjunk}}

PlanStatementFor(op, query, fpinfo, plan) ==
    /\ operation' = op
    /\ parsetree' = [query EXCEPT !.attrs_used = fpinfo.attrs_used]
    /\ scan_plan' = make_foreignscan(cassGetForeignPlan(rel, fpinfo.attrs_used),
                                     query.quals)
    /\ fdw_private' = plan.fdw_private
    /\ error' = plan.err
    /\ calls' = IF plan.err # NoError THEN Append(calls, "ereport") ELSE calls
    /\ pc' = IF plan.err # NoError THEN "aborted" ELSE "planned"

\* planning UPDATE or DELETE ... WHERE: the rewriter adds the key to the
\* target list, the scan of the table is planned, then the modify
PlanStatement ==
    /\ pc = "start"
    /\ \E op \in {"UPDATE", "DELETE"}, quals \in Quals(rel) :
       \E updatedCols \in (IF op = "UPDATE" THEN UpdatedColSets(rel) ELSE {{}}) :
       \E values \in SetValues(rel, updatedCols) :
          LET rw == cassAddForeignUpdateTargets(rel, UpdateTargetList(rel, updatedCols))
              query == [NoQuery EXCEPT !.targetList = rw.targetList,
                                       !.updatedCols = updatedCols,
                                       !.quals = quals, !.values = values]
          IN /\ rw.err = NoError
             /\ PlanStatementFor(op, query,
                                 cassGetForeignRelSize(Reltarget(op, query), quals),
                                 cassPlanForeignModify(rel, op, query,
                                                       query.onConflictAction))
    /\ UNCHANGED <<remote, keyspace_meta, commands, session_timezone, rel, fmstate,
                   fsstate, slot_out, state_null, cass_statement, wire, reply, row>>

\* ExecInitModifyTable: the scan below is initialised, then the modify
BeginStatement ==
    /\ pc = "planned"
    /\ Install(cassBeginForeignModify(
                   cassBeginForeignScan(Machine, rel, scan_plan.fdw_private, FALSE),
                   rel, operation, fdw_private, parsetree.targetList, FALSE),
               "begun")
    /\ UNCHANGED <<remote, scan_plan, keyspace_meta, commands, session_timezone, rel,
                   operation, parsetree, fdw_private, row>>

\* the requests the remote has received once the handler has run
Received(m) ==
    IF Count(m.calls, "cass_session_execute") > Count(calls, "cass_session_execute")
    THEN Append(remote.requests, m.wire)
    ELSE remote.requests

ScanRowDone(m) ==
    /\ Install(m, IF m.ret.empty THEN "scanned"
                  ELSE IF ExecQual(scan_plan.local_exprs, m.ret.tuple) THEN "row"
                  ELSE "begun")
    /\ remote' = [remote EXCEPT !.requests = Received(m)]

\* ExecScan: the next row of the scan; a row the local filtering expressions
\* reject is skipped
ScanRow ==
    /\ pc = "begun"
    /\ \E result \in (IF WillFetch
                        THEN SelectOutcomes(rel, remote.rows, fsstate.retrieved_attrs)
                        ELSE {NoResult}) :
          ScanRowDone(cassIterateForeignScan(Machine, rel, result))
    /\ UNCHANGED <<scan_plan, keyspace_meta, commands, session_timezone, rel,
                   operation, parsetree, fdw_private, row>>

\* the tuple an UPDATE stores: the scanned tuple with the SET columns assigned
NewTuple(planSlot) ==
    IF operation = "UPDATE"
    THEN [i \in 1..natts(rel) |->
             IF i \in Attnos(parsetree.updatedCols) THEN parsetree.values[i]
             ELSE planSlot[i]]
    ELSE planSlot

\* the resjunk key value of the scanned tuple (ExecGetJunkAttribute)
JunkKey(planSlot) == planSlot[parsetree.targetList[fmstate.keyAttno].attno]

ModifyRowDone(m, rc, slot, key) ==
    /\ (rc.ok /\ m.err = NoError) => RemoteAccepts(rel, m.wire)
    /\ Install(m, "begun")
    /\ remote' = [remote EXCEPT
                    !.requests = Received(m),
                    !.rows = IF rc.ok /\ m.err = NoError
                             THEN RemoteWrite(rel, @, m.wire) ELSE @]
    /\ row' = [n |-> row.n + 1, slot |-> slot, key |-> key]

\* ExecModifyTable on the row the scan returned: ExecForeignUpdate or
\* ExecForeignDelete, and the remote table's answer
ModifyRow ==
    /\ pc = "row"
    /\ \E rc \in WriteOutcomes :
          ModifyRowDone(cassExecPKPredWrite(Machine, NewTuple(slot_out.tuple),
                                            JunkKey(slot_out.tuple), operation,
                                            rc.ok, rc.message),
                        rc, NewTuple(slot_out.tuple), JunkKey(slot_out.tuple))
    /\ UNCHANGED <<scan_plan, keyspace_meta, commands, session_timezone, rel,
                   operation, parsetree, fdw_private>>

\* ExecEndModifyTable: the modify is ended, then the scan below
EndStatement ==
    /\ pc = "scanned"
    /\ Install(cassEndForeignScan(cassEndForeignModify(Machine)), "ended")
    /\ UNCHANGED <<remote, scan_plan, keyspace_meta, commands, session_timezone, rel,
                   operation, parsetree, fdw_private, row>>

\* a new scan of every column after the statement: it is begun and its
\* first row request fetches the table
ScanAfterDone(m) ==
    /\ Install(m, "rescanned")
    /\ remote' = [remote EXCEPT !.requests = Received(m)]

ScanAfterWith(private) ==
    \E result \in SelectOutcomes(rel, remote.rows, private.retrieved_attrs) :
        ScanAfterDone(cassIterateForeignScan(
                          cassBeginForeignScan(Machine, rel, private, FALSE),
                          rel, result))

ScanAfter ==
    /\ pc = "ended"
    /\ ScanAfterWith(cassGetForeignPlan(rel, Bits(LiveAttnos(rel))))
    /\ UNCHANGED <<scan_plan, keyspace_meta, commands, session_timezone, rel,
                   operation, parsetree, fdw_private, row>>

NextStatement ==
    \/ PlanStatement
    \/ BeginStatement
    \/ ScanRow
    \/ ModifyRow
    \/ EndStatement
    \/ ScanAfter

SpecStatement == InitStatement /\ [][NextStatement]_vars

(* ------------------------------------------------------------------ *)
(* Properties                                                          *)
(* ------------------------------------------------------------------ *)
Acquired == Count(calls, "pgcass_GetConnection")
Released == Count(calls, "pgcass_ReleaseConnection")
Created == Count(calls, "cass_statement_new")
Freed == Count(calls, "cass_statement_free")
Executes == Count(calls, "cass_session_execute")
Finished == pc \in {"ended", "aborted"}
IsWrite == operation \in {"INSERT", "UPDATE", "DELETE"}

\* the last row execution reached the remote execute / stopped before it
RowSent == row.n > 0 /\ Executes = row.n
RowNotSent == row.n > 0 /\ Executes = row.n - 1

\* the remote name of a column, and the column the primary_key option names
ColumnNameOf(r, a) ==
    IF r.tupdesc[a].column_name # NullStr THEN r.tupdesc[a].column_name
    ELSE r.tupdesc[a].attname
KeyColumn(r) == CHOOSE i \in LiveAttnos(r) : r.tupdesc[i].attname = r.primary_key

\* the parameter a value of a column of the given declared type is bound as
ParamKind(typid) ==
    CASE typid = INT2OID -> "int16"
      [] typid = INT4OID -> "int32"
      [] typid = INT8OID -> "int64"
      [] typid = FLOAT4OID -> "float"
      [] typid = FLOAT8OID -> "double"
      [] typid = BOOLOID -> "bool"
      [] typid \in {TEXTOID, VARCHAROID, BPCHAROID} -> "string"
      [] OTHER -> "unsupported"
ExpectedParam(typid, d) ==
    IF d.isnull THEN Param("null", 0) ELSE Param(ParamKind(typid), d.val)

\* the columns a scan asks for
WholeRow == 0 \in Attnos(parsetree.attrs_used)
Requested ==
    IF WholeRow THEN LiveAttnos(rel)
    ELSE Attnos(parsetree.attrs_used) \cap (1..natts(rel))
ScanPlanned == operation = "SELECT" /\ pc # "start"
AllNullTuple == [i \in 1..natts(rel) |-> NullDatum]

\* C1: a modify that took a session handle has returned it exactly once when
\* it finishes, on every exit path: normal end, remote execute failure, null
\* bound to a smallint column, null primary-key value, unsupported type.
C1_SessionReturnedExactlyOnce ==
    IsWrite => /\ Released <= Acquired
               /\ Finished => Released = Acquired

\* C2: every statement a modify created has been freed exactly once when the
\* modify finishes, on every exit path, the error paths of the first row
\* included.
C2_StatementFreedExactlyOnce ==
    IsWrite => /\ Freed <= Created
               /\ Finished => Freed = Created

\* C3: when the remote execute of an INSERT, UPDATE or DELETE fails, the
\* statement is freed and the session released, each exactly once, after the
\* execute and before the error is raised; the error carries the remote
\* message and the kind of operation; the operation is over, nothing follows.
C3_RemoteFailureReleasesThenRaises ==
    IsWrite /\ error.kind = "remote_execute" =>
        LET n == Len(calls)
        IN /\ n >= 4
           /\ SubSeq(calls, n - 3, n) =
                  <<"cass_session_execute", "cass_statement_free",
                    "pgcass_ReleaseConnection", "ereport">>
           /\ Freed = 1 /\ Released = 1 /\ Count(calls, "ereport") = 1
           /\ ~reply.ok /\ reply.message \in RemoteMessages
           /\ error.msg = reply.message
           /\ error.op = operation
           /\ pc = "aborted"
           /\ RowSent

C3_Witness ==
    /\ operation = "UPDATE"
    /\ error.kind = "remote_execute"
    /\ row.n = 2

\* C4: an INSERT or UPDATE row with a null in a smallint column of the
\* target list ends in an error without a remote execute for that row,
\* wherever the column stands in the list and whatever the other values are.
C4_NullSmallintIsRefused ==
    /\ operation \in {"INSERT", "UPDATE"}
    /\ row.n > 0
    /\ \E k \in 1..Len(fdw_private.targetAttrs) :
          /\ rel.tupdesc[fdw_private.targetAttrs[k]].atttypid = INT2OID
          /\ row.slot[fdw_private.targetAttrs[k]].isnull
    => /\ pc = "aborted"
       /\ error # NoError
       /\ RowNotSent

C4_Witness ==
    /\ operation = "UPDATE"
    /\ Len(fdw_private.targetAttrs) = 2
    /\ rel.tupdesc[fdw_private.targetAttrs[1]].atttypid = INT4OID
    /\ rel.tupdesc[fdw_private.targetAttrs[2]].atttypid = INT2OID
    /\ row.n = 2
    /\ ~row.slot[fdw_private.targetAttrs[1]].isnull
    /\ row.slot[fdw_private.targetAttrs[2]].isnull
    /\ error.kind = "bind_null_smallint"

\* C5: an UPDATE or DELETE row whose carried primary-key value is null ends
\* in an error without a remote execute for that row.
C5_NullKeyIsRefused ==
    /\ operation \in {"UPDATE", "DELETE"}
    /\ row.n > 0
    /\ row.key.isnull
    => /\ pc = "aborted"
       /\ error # NoError
       /\ RowNotSent

C5_Witness ==
    /\ operation = "DELETE"
    /\ row.n = 2
    /\ row.key.isnull
    /\ error.kind = "pk_null"

\* C6: the request a row execution sends carries the row's values at
\* positions 0..n-1 in the order of the target list, each bound as the
\* declared type of its column (a null as null), and for UPDATE and DELETE
\* the key value last, at position n (0 for DELETE), as the type of the key
\* column; the positions follow the placeholders of the statement text.
C6_ParametersFollowPlaceholders ==
    IsWrite /\ RowSent =>
        LET ta == fdw_private.targetAttrs
            n == Len(ta)
            keyed == operation \in {"UPDATE", "DELETE"}
        IN /\ operation = "DELETE" => n = 0
           /\ Len(wire.params) = n + (IF keyed THEN 1 ELSE 0)
           /\ \A k \in 1..n :
                 wire.params[k] =
                     ExpectedParam(rel.tupdesc[ta[k]].atttypid, row.slot[ta[k]])
           /\ keyed =>
                 wire.params[n + 1] =
                     ExpectedParam(rel.tupdesc[KeyColumn(rel)].atttypid, row.key)
           /\ wire.query = fdw_private.sql
           /\ NumPlaceholders(wire.query) = Len(wire.params)
           /\ StatementColumns(wire.query) =
                  [k \in 1..n |-> ColumnNameOf(rel, ta[k])]
                  \o (IF keyed THEN <<rel.primary_key>> ELSE << >>)

C6_Witness ==
    /\ operation = "UPDATE"
    /\ Len(fdw_private.targetAttrs) = 2
    /\ RowSent
    /\ reply.ok
    /\ \A k \in 1..3 : wire.params[k].kind \notin {"null", "unset"}

\* the scenario's INSERT: the statement names id, v2 and v3 only
ScenarioInsert ==
    /\ operation = "INSERT"
    /\ parsetree.insertedCols = Bits({1, 3, 4})
    /\ fdw_private # NoPlan

ScenarioNames == [k \in 1..4 |-> ColumnNameOf(ScenarioRel, k)]

\* C7 as stated: on the scenario table an INSERT supplying only id, v2 and
\* v3 produces a statement naming exactly id, v2, v3 with 3 placeholders,
\* and 3 parameters are bound.
C7_InsertNamesSuppliedColumns ==
    ScenarioInsert =>
        /\ StatementColumns(fdw_private.sql) =
               <<ScenarioNames[1], ScenarioNames[3], ScenarioNames[4]>>
        /\ NumPlaceholders(fdw_private.sql) = 3
        /\ RowSent => Len(wire.params) = 3

\* C7 amended: on the scenario table an INSERT supplying only id, v2 and v3
\* produces a statement naming all four columns id, v1, v2, v3 with 4
\* placeholders; a row whose v1 is not null is sent with 4 parameters bound
\* in that order; a row whose v1 is null is refused at the binding of v1 and
\* nothing is sent for it.
C7_InsertNamesEveryColumn ==
    ScenarioInsert =>
        /\ fdw_private.targetAttrs = <<1, 2, 3, 4>>
        /\ StatementColumns(fdw_private.sql) = ScenarioNames
        /\ NumPlaceholders(fdw_private.sql) = 4
        /\ ~state_null => fmstate.p_nums = 4
        /\ RowSent =>
              /\ Len(wire.params) = 4
              /\ ~row.slot[2].isnull
              /\ \A k \in 1..4 :
                    wire.params[k] =
                        ExpectedParam(rel.tupdesc[k].atttypid, row.slot[k])
        /\ row.n > 0 /\ row.slot[2].isnull =>
              /\ error.kind = "bind_null_smallint"
              /\ RowNotSent

C7_Witness ==
    /\ ScenarioInsert
    /\ RowSent
    /\ reply.ok
    /\ \A k \in 1..4 : ~row.slot[k].isnull

\* C8: the column list of a SELECT and its retrieved-attribute list hold
\* each requested column (every non-dropped column when the whole row is
\* requested) exactly once, in strictly ascending order, and never a
\* dropped column.
C8_SelectListIsTheRequestedColumns ==
    ScanPlanned =>
        LET ra == fdw_private.retrieved_attrs
        IN /\ \A k \in 1..(Len(ra) - 1) : ra[k] < ra[k + 1]
           /\ SeqToSet(ra) = Requested
           /\ \A k \in 1..Len(ra) :
                 ra[k] \in 1..natts(rel) /\ ~rel.tupdesc[ra[k]].attisdropped
           /\ StatementColumns(fdw_private.sql) =
                  [k \in 1..Len(ra) |-> ColumnNameOf(rel, ra[k])]

C8_Witness ==
    /\ ScanPlanned
    /\ WholeRow
    /\ \E i \in 1..natts(rel) : rel.tupdesc[i].attisdropped
    /\ Len(fdw_private.retrieved_attrs) >= 1

\* C9: when no column is selected the SELECT's only selected expression is
\* the literal NULL and the retrieved-attribute list is empty; the scan
\* turns each one-column remote row into a tuple of nulls and raises no
\* shape error.
C9_EmptySelectionReadsNull ==
    ScanPlanned /\ Requested = {} =>
        /\ Len(fdw_private.sql) >= 3
        /\ SubSeq(fdw_private.sql, 1, 3) =
               <<Lit("SELECT "), Lit("NULL"), Lit(" FROM ")>>
        /\ fdw_private.retrieved_attrs = << >>
        /\ error.kind \notin {"result_shape", "invalid_input_syntax"}
        /\ fsstate.eof_reached =>
              /\ fsstate.NumberOfColumns = 1
              /\ Len(fsstate.tuples) = fsstate.num_tuples
              /\ \A k \in 1..Len(fsstate.tuples) : fsstate.tuples[k] = AllNullTuple
        /\ ~slot_out.empty => slot_out.tuple = AllNullTuple

C9_Witness ==
    /\ ScanPlanned
    /\ Requested = {}
    /\ fsstate.eof_reached
    /\ fsstate.num_tuples = 2
    /\ fsstate.next_tuple = 2
    /\ ~slot_out.empty

\* C10: a re-scan after the fetch completed sets the next position to 0 and
\* leaves batch, count and end-of-data flag as they are, without a remote
\* execute; a re-scan before any fetch leaves the flag false and the batch
\* empty, and the next row request performs the first fetch.
C10_ReScanRewindsTheBatch ==
    [][/\ ReScanForeignScan =>
             /\ calls' = calls
             /\ wire' = wire
             /\ error' = NoError
             /\ fsstate.sql_sended =>
                   /\ fsstate.eof_reached
                   /\ fsstate'.next_tuple = 0
                   /\ fsstate'.tuples = fsstate.tuples
                   /\ fsstate'.num_tuples = fsstate.num_tuples
                   /\ fsstate'.eof_reached = fsstate.eof_reached
             /\ ~fsstate.sql_sended =>
                   /\ ~fsstate'.sql_sended
                   /\ ~fsstate'.eof_reached
                   /\ fsstate'.tuples = << >>
                   /\ fsstate'.num_tuples = 0
       /\ IterateForeignScan /\ ~fsstate.sql_sended =>
             Count(calls', "cass_session_execute") = 1
      ]_vars

C10_Witness ==
    /\ operation = "SELECT"
    /\ pc = "begun"
    /\ fsstate.eof_reached
    /\ fsstate.num_tuples = 2
    /\ fsstate.next_tuple = 0
    /\ ~slot_out.empty

\* C11: a fetch that succeeds leaves the end-of-data flag true, and once a
\* scan has issued a remote execute no row request or re-scan issues
\* another: a scan issues at most one remote execute from begin to end, a
\* batch of zero rows included.
C11_OneExecutePerScan ==
    [][/\ (IterateForeignScan
            /\ Count(calls', "cass_session_execute") > Executes
            /\ error' = NoError) => fsstate'.eof_reached
       /\ (operation = "SELECT" /\ Executes >= 1) =>
             Count(calls', "cass_session_execute") = Executes
       /\ operation = "SELECT" => Count(calls', "cass_session_execute") <= 1
      ]_vars

\* a batch of zero rows was fetched, the scan was rewound and asked again
C11_Witness ==
    /\ operation = "SELECT"
    /\ pc = "ended"
    /\ fsstate.sql_sended
    /\ fsstate.eof_reached
    /\ fsstate.num_tuples = 0
    /\ slot_out.empty
    /\ Executes = 1
    /\ reply.ok

\* C12: ending a scan releases nothing when begin ran explain-only; frees no
\* statement and returns the session once when no row was requested; frees
\* the statement once and returns the session once when a cursor was opened.
C12_EndScanIsSafe ==
    [][EndForeignScan =>
          /\ error' = NoError
          /\ state_null => calls' = calls
          /\ (~state_null /\ ~fsstate.sql_sended) =>
                /\ Created = 0
                /\ Count(calls', "cass_statement_free") = 0
                /\ Count(calls', "pgcass_ReleaseConnection") = 1
                /\ Acquired = 1
          /\ (~state_null /\ fsstate.sql_sended) =>
                /\ Created = 1
                /\ Count(calls', "cass_statement_free") = 1
                /\ Count(calls', "pgcass_ReleaseConnection") = 1
                /\ Acquired = 1
      ]_vars

\* a scan whose cursor was opened has ended
C12_Witness ==
    /\ operation = "SELECT"
    /\ pc = "ended"
    /\ ~state_null
    /\ fsstate.sql_sended
    /\ Freed = 1
    /\ Released = 1

\* C13: rewriting an UPDATE or DELETE fails with a configuration error,
\* before any remote call, exactly when the table has no primary_key option
\* or the option's value is not equal to the name of any column; in every
\* other case the rewriting and the planning succeed.
C13_KeyMustNameAColumn ==
    operation \in {"UPDATE", "DELETE"} =>
        IF \/ cassGetPKOption(rel) = NullStr
           \/ \A i \in 1..natts(rel) : rel.tupdesc[i].attname # cassGetPKOption(rel)
        THEN /\ pc = "aborted"
             /\ error.kind \in {"no_primary_key", "primary_key_not_found"}
             /\ calls = <<"ereport">>
        ELSE /\ pc \in {"rewritten", "planned"} => error = NoError
             /\ error.kind \notin {"no_primary_key", "primary_key_not_found",
                                    "no_junk_attribute"}

\* the types documented as supported for writing: smallint, int, bigint,
\* float, double, text, ascii and varchar, timestamp, boolean, inet, uuid
WriteSupported ==
    {INT2OID, INT4OID, INT8OID, FLOAT4OID, FLOAT8OID, TEXTOID, VARCHAROID,
     TIMESTAMPTZOID, TIMESTAMPOID, BOOLOID, INETOID, UUIDOID}

\* C14: binding a non-null value of a type documented as supported for
\* writing succeeds: the parameter is set and no 'not supported' error is
\* raised.
C14_DocumentedTypesBind ==
    (pc # "start" /\ rel.tupdesc[1].atttypid \in WriteSupported) =>
        /\ error.kind # "type_not_supported"
        /\ cass_statement.nparams = 1
        /\ cass_statement.params[1].kind \notin {"unset", "null"}

\* C15: a value of a 16-, 32- or 64-bit integer, boolean or text column
\* written by the bind path and read back from the stored value is the
\* value written; an instant of a timestamp column comes back truncated to
\* whole seconds.
C15_RoundTrip ==
    (pc \in {"read", "aborted"} /\ rel.tupdesc[1].atttypid \in ReadTypes) =>
        /\ pc = "read"
        /\ slot_out.tuple[1] =
              IF rel.tupdesc[1].atttypid \in {TIMESTAMPTZOID, TIMESTAMPOID}
              THEN Datum((row.slot[1].val \div 1000000) * 1000000)
              ELSE row.slot[1]

\* the imported tables all of whose columns are of a type the import maps
SupportedTables ==
    {k \in 1..Len(keyspace_meta.tables) :
        \A i \in 1..Len(keyspace_meta.tables[k].columns) :
            pgcass_transformDataType(keyspace_meta.tables[k].columns[i].type).valid}

\* C16: a column of a remote type the import does not map aborts only the
\* statement of its own table: the import returns exactly one CREATE
\* statement for every table all of whose columns are mapped.
C16_ImportSkipsOnlyTheBadTable ==
    (operation = "IMPORT" /\ keyspace_meta.found) =>
        \A k \in SupportedTables :
            Cardinality({j \in 1..Len(commands) :
                            /\ commands[j][1] = Lit("CREATE FOREIGN TABLE \"")
                            /\ commands[j][2] = Raw(keyspace_meta.tables[k].name)}) = 1

\* the level a consistency option stands for
LevelOf(option) ==
    IF option = "" THEN "CASS_CONSISTENCY_LOCAL_ONE" ELSE consistency_from_string(option)

\* C17: every remote execute of a scan carries the table's read level and
\* every remote execute of a modify its write level, LOCAL_ONE when the
\* option is absent; a scan never executes at ANY or at an unknown level.
C17_ExecutesCarryTheConfiguredLevel ==
    Executes > 0 =>
        /\ wire.consistency =
              IF operation = "SELECT" THEN LevelOf(rel.read_consistency)
              ELSE LevelOf(rel.write_consistency)
        /\ wire.consistency # "CASS_CONSISTENCY_UNKNOWN"
        /\ operation = "SELECT" => wire.consistency # "CASS_CONSISTENCY_ANY"

\* a scan at QUORUM on a table written at ANY
C17_Witness ==
    /\ operation = "SELECT"
    /\ Executes = 1
    /\ rel.read_consistency = "QUORUM"
    /\ rel.write_consistency = "ANY"
    /\ wire.consistency = "CASS_CONSISTENCY_QUORUM"

\* the qualified name a statement targets
TargetOf(sql) ==
    LET i == CHOOSE k \in 1..Len(sql) : sql[k] = Lit(".")
    IN <<sql[i - 1], sql[i], sql[i + 1]>>

\* C18: a table defined without table_name is accepted; its statements
\* target the relation's own name, in the relation's own namespace when
\* schema_name is absent too; options that are present are used instead.
C18_TableNameDefaults ==
    /\ (pc # "create" /\ rel.table_name = NullStr /\ rel.schema_name = NullStr
            /\ rel.query = NullStr) => error.kind # "table_name_or_query_required"
    /\ fdw_private.sql # << >> =>
          TargetOf(fdw_private.sql) =
              <<quote_identifier(IF rel.schema_name = NullStr THEN rel.nspname
                                 ELSE rel.schema_name),
                Lit("."),
                quote_identifier(IF rel.table_name = NullStr THEN rel.relname
                                 ELSE rel.table_name)>>

\* the statement of an UPDATE or DELETE with a WHERE is running or has run
InStatement == operation \in {"UPDATE", "DELETE"} /\ scan_plan # NoScanPlan
IsSelectRequest(req) == Head(req.query) = Lit("SELECT ")
SelectRequests == SelectSeq(remote.requests, IsSelectRequest)
WriteRequests == SelectSeq(remote.requests, LAMBDA req : ~IsSelectRequest(req))
\* the rows of the table, as it was before the statement, that satisfy the WHERE
Satisfying == {trow \in remote.before : ExecQual(parsetree.quals, trow)}
KeyParamOf(r) == ParamKind(r.tupdesc[RemoteKey(r)].atttypid)

\* C19: for an UPDATE or DELETE with any WHERE, no predicate is sent to the
\* remote: the scan reads the rows with a parameterless SELECT that has no
\* WHERE, the predicate is evaluated locally, and exactly one remote write,
\* keyed by the row's primary-key value, is issued for each scanned row that
\* satisfies the predicate and none for any other row.
C19_WhereIsEvaluatedLocally ==
    InStatement =>
        /\ \A k \in 1..Len(SelectRequests) :
              /\ SelectRequests[k].params = << >>
              /\ \A j \in 1..Len(SelectRequests[k].query) :
                    SelectRequests[k].query[j] # Lit(" WHERE ")
        /\ \A k \in 1..Len(WriteRequests) :
              /\ WriteRequests[k].query = fdw_private.sql
              /\ WriteKey(WriteRequests[k]).kind = KeyParamOf(rel)
              /\ \E trow \in Satisfying : KeyOf(rel, trow) = WriteKey(WriteRequests[k]).val
              /\ \A j \in 1..Len(WriteRequests) :
                    WriteKey(WriteRequests[j]) = WriteKey(WriteRequests[k]) => j = k
        /\ pc \in {"scanned", "ended", "rescanned"} =>
              /\ Len(SelectRequests) >= 1
              /\ \A trow \in Satisfying :
                    \E k \in 1..Len(WriteRequests) :
                        WriteKey(WriteRequests[k]).val = KeyOf(rel, trow)

\* a statement whose WHERE some row satisfies and some row does not has run
\* to the end of its scan
C19_Witness ==
    /\ InStatement
    /\ pc = "scanned"
    /\ parsetree.quals # << >>
    /\ Satisfying # {}
    /\ Satisfying # remote.before
    /\ Len(WriteRequests) = Cardinality(Satisfying)

\* the row an UPDATE leaves in the place of a row of the table
Updated(trow) ==
    IF ExecQual(parsetree.quals, trow)
    THEN [i \in 1..natts(rel) |->
             IF i \in Attnos(parsetree.updatedCols) THEN parsetree.values[i]
             ELSE trow[i]]
    ELSE trow
AssignedNames ==
    [k \in 1..Len(UpdatedAttnos(parsetree.updatedCols)) |->
        ColumnNameOf(rel, UpdatedAttnos(parsetree.updatedCols)[k])]

\* C20: against a remote store with upsert-by-key semantics, after an UPDATE
\* that sets c = v on the row with key k has completed, a new scan returns
\* the row with key k holding c = v, every column not assigned keeps its
\* previous value and every other row is unchanged; the UPDATE transmits
\* only the assigned columns plus the key.
C20_UpdateAssignsOnlyItsColumns ==
    (InStatement /\ operation = "UPDATE") =>
        /\ \A k \in 1..Len(WriteRequests) :
              /\ StatementColumns(WriteRequests[k].query)
                    = AssignedNames \o <<cassGetPKOption(rel)>>
              /\ Len(WriteRequests[k].params) = Len(AssignedNames) + 1
        /\ (pc = "rescanned" /\ error = NoError) =>
              /\ fsstate.num_tuples = Cardinality(remote.before)
              /\ SeqToSet(fsstate.tuples) = {Updated(trow) : trow \in remote.before}

\* an UPDATE has changed a row, left another alone, and the table has been
\* scanned again
C20_Witness ==
    /\ InStatement
    /\ operation = "UPDATE"
    /\ pc = "rescanned"
    /\ error = NoError
    /\ \E trow \in remote.before : Updated(trow) # trow
    /\ \E trow \in remote.before : ~ExecQual(parsetree.quals, trow)
    /\ \E trow \in remote.before :
          \E i \in 1..natts(rel) :
              /\ i \notin Attnos(parsetree.updatedCols)
              /\ i # RemoteKey(rel)
              /\ ~trow[i].isnull
              /\ ExecQual(parsetree.quals, trow)

\* a finite sequence of numbers is strictly ascending
Ascending(seq) == \A i \in 1..Len(seq), j \in 1..Len(seq) : i < j => seq[i] < seq[j]
ModifyPlanned == IsWrite /\ pc \in {"planned", "begun", "ended"}

\* C21: the target attribute list built at plan time is, for INSERT, the
\* ordinals of all non-dropped columns in ascending order whichever columns
\* the statement names, for UPDATE the assigned column ordinals, for DELETE
\* empty; it never holds a dropped column or a system-column ordinal; the
\* modify state begun from the plan holds the same list.
C21_TargetAttributeList ==
    ModifyPlanned =>
        /\ Ascending(fdw_private.targetAttrs)
        /\ SeqToSet(fdw_private.targetAttrs) =
              (CASE operation = "INSERT" -> LiveAttnos(rel)
                 [] operation = "UPDATE" -> Attnos(parsetree.updatedCols)
                 [] OTHER -> {})
        /\ \A k \in 1..Len(fdw_private.targetAttrs) :
              /\ fdw_private.targetAttrs[k] > InvalidAttrNumber
              /\ fdw_private.targetAttrs[k] \in 1..natts(rel)
              /\ ~rel.tupdesc[fdw_private.targetAttrs[k]].attisdropped
        /\ (pc \in {"begun", "ended"} /\ ~state_null) =>
              fmstate.target_attrs = fdw_private.targetAttrs

\* an INSERT that names fewer columns than the table has, on a table with a
\* dropped column, has been planned and begun
C21_Witness ==
    /\ operation = "INSERT"
    /\ pc = "begun"
    /\ ~state_null
    /\ \E i \in 1..natts(rel) : rel.tupdesc[i].attisdropped
    /\ Attnos(parsetree.insertedCols) # LiveAttnos(rel)
    /\ fmstate.target_attrs # << >>

\* the remote execute of the scan's fetch has failed
FetchFailed == operation = "SELECT" /\ Executes >= 1 /\ ~reply.ok

\* C22: when the remote execute of a scan's fetch returns a non-success
\* status, the remote error is surfaced to the caller, the scan's
\* end-of-data flag is set true, and the execute is never retried.
C22_FailedFetchSetsEof ==
    FetchFailed =>
        /\ error = Error("remote_execute", "SELECT", reply.message)
        /\ fsstate.eof_reached
        /\ Executes = 1

\* the parameters of the row the last row execution was given: the values of
\* the target columns, then the key of an UPDATE or DELETE
RowParams ==
    [k \in 1..Len(fmstate.target_attrs) |->
        ExpectedParam(rel.tupdesc[fmstate.target_attrs[k]].atttypid,
                      row.slot[fmstate.target_attrs[k]])]
    \o (IF operation \in {"UPDATE", "DELETE"}
        THEN <<ExpectedParam(rel.tupdesc[KeyColumn(rel)].atttypid, row.key)>>
        ELSE << >>)

\* C23: within one modify the bound statement is created at the first row
\* execution and at no other time: after n >= 1 row executions exactly one
\* statement has been created, every remote execute used it, and every
\* parameter position holds the value of the row just executed; with no row
\* execution no statement is created and the end frees none.
C23_OneStatementPerModify ==
    IsWrite =>
        /\ Created = (IF row.n >= 1 THEN 1 ELSE 0)
        /\ row.n = 0 => Freed = 0 /\ Executes = 0 /\ cass_statement = NoStatement
        /\ RowSent =>
              /\ wire.query = fmstate.query
              /\ cass_statement.query = fmstate.query
              /\ cass_statement.nparams = fmstate.p_nums
              /\ wire.params = RowParams
              /\ cass_statement.params = RowParams

\* two rows with different values were executed on one statement
C23_Witness ==
    /\ IsWrite
    /\ row.n = 2
    /\ Executes = 2
    /\ Created = 1
    /\ reply.ok
    /\ \E k \in 1..Len(wire.params) : wire.params[k].kind = "null"

\* the fetch of a scan was answered with one row
RowFetched == operation = "SELECT" /\ row.n = 1 /\ Executes = 1 /\ reply.ok
\* the row request of the fetch returned its tuple
TupleReturned == RowFetched /\ error = NoError /\ ~slot_out.empty /\ fsstate.next_tuple = 1

\* C24: for every remote row and retrieved attribute list, the materialized
\* tuple holds at the slot of the j-th list entry a the decoded value of
\* remote column j, is null there exactly when remote column j is null, and
\* is null at every slot whose ordinal is not in the list.
C24_TupleFollowsRetrievedAttrs ==
    TupleReturned =>
        /\ \A j \in 1..Len(fsstate.retrieved_attrs) :
              /\ slot_out.tuple[fsstate.retrieved_attrs[j]].isnull = row.slot[j].isnull
              /\ slot_out.tuple[fsstate.retrieved_attrs[j]].val = row.slot[j].val
        /\ \A i \in 1..natts(rel) :
              i \notin SeqToSet(fsstate.retrieved_attrs) => slot_out.tuple[i] = NullDatum

\* a tuple was made from a row with a null and a value, for a list that
\* leaves the first column out
C24_Witness ==
    /\ TupleReturned
    /\ fsstate.retrieved_attrs # << >>
    /\ fsstate.retrieved_attrs[1] # 1
    /\ \E i \in 1..natts(rel) : ~slot_out.tuple[i].isnull

\* C25: materializing a row fails with a result-shape error exactly when the
\* retrieved attribute list is non-empty and its length differs from the
\* number of columns of the remote result; with an empty list any column
\* count is accepted; the error aborts the fetch and no tuple is returned.
C25_ShapeErrorExactlyOnMismatch ==
    RowFetched =>
        /\ error = Error("result_shape", "SELECT", "")
              <=> (/\ fsstate.retrieved_attrs # << >>
                   /\ Len(fsstate.retrieved_attrs) # fsstate.NumberOfColumns)
        /\ error # NoError => slot_out.empty /\ pc = "aborted"

\* the hidden (resjunk) entries of the rewritten statement's target list
HiddenEntries == {k \in 1..Len(parsetree.targetList) : parsetree.targetList[k].resjunk}

\* C26: for an UPDATE or DELETE on a table whose configured key name is p,
\* exactly one hidden carried column is added and it is the column named p;
\* a column whose name merely starts with p is never added; the parameter
\* type of the key placeholder is the declared type of column p.
C26_OneHiddenKeyColumn ==
    /\ operation \in {"UPDATE", "DELETE"} /\ pc # "aborted" =>
          /\ Cardinality(HiddenEntries) = 1
          /\ \A k \in HiddenEntries :
                parsetree.targetList[k].resname = cassGetPKOption(rel)
    /\ operation \in {"UPDATE", "DELETE"} /\ pc = "begun" /\ ~state_null =>
          fmstate.p_type_oids[fmstate.p_nums] = rel.tupdesc[KeyColumn(rel)].atttypid

\* an instant of a timestamp column was bound as the parameter of a write
TimestampBound ==
    /\ pc = "bound"
    /\ rel.tupdesc[1].atttypid \in {TIMESTAMPTZOID, TIMESTAMPOID}

\* (v + tz * 1000000) / 1000 towards zero, without the intermediate product
AdjustedMillis(v, tz) ==
    LET q == CDiv(v, 1000)
        r == v - q * 1000
        ms == q + tz * 1000
    IN IF ms < 0 /\ r > 0 THEN ms + 1
       ELSE IF ms > 0 /\ r < 0 THEN ms - 1
       ELSE ms

\* C27: the wire value bound for a timestamp is the instant's microseconds
\* since the Unix epoch, adjusted by the zone offset expressed in
\* microseconds (or not adjusted, the instant being absolute), divided by
\* 1000 towards zero; and for every instant and every zone offset the wire
\* value divided by 1000 is the instant's whole-second value.
C27_TimestampWireValue ==
    TimestampBound =>
        /\ cass_statement.params[1].val \in
              {AdjustedMillis(row.slot[1].val, session_timezone),
               CDiv(row.slot[1].val, 1000)}
        /\ CDiv(cass_statement.params[1].val, 1000) = CDiv(row.slot[1].val, 1000000)

\* the column references of a statement's text as they are written, in order
ColumnTexts(sql) ==
    LET names == SelectSeq(sql, LAMBDA tok : tok.k # "lit")
        cols == IF sql # << >> /\ sql[1] = Lit("SELECT ")
                THEN SubSeq(names, 1, Len(names) - 2)
                ELSE SubSeq(names, 3, Len(names))
    IN [k \in 1..Len(cols) |-> TokenText(cols[k])]

\* the name a column is to be written with: its column_name option if it has
\* one, else its name, identifier-quoted
ColumnText(r, attno) ==
    QuotedText(IF r.tupdesc[attno].column_name # NullStr
               THEN r.tupdesc[attno].column_name
               ELSE r.tupdesc[attno].attname)

\* the columns a planned statement refers to, in the order of its text
ReferencedColumns ==
    IF operation = "SELECT" THEN fdw_private.retrieved_attrs
    ELSE IF operation = "INSERT" THEN fdw_private.targetAttrs
    ELSE IF operation = "UPDATE"
    THEN Append(fdw_private.targetAttrs, KeyColumn(rel))
    ELSE <<KeyColumn(rel)>>

\* C28: in each of the four deparsed statements every column reference (the
\* SELECT list, the INSERT column list, the SET list, the key column of the
\* WHERE of UPDATE and DELETE) is written as the column's column_name option
\* if it has one, else its name, identifier-quoted; the key column of the
\* WHERE is written as the same column is in a SELECT or SET list.
C28_ColumnReferencesUseTheOverride ==
    (pc = "planned" /\ error = NoError) =>
        ColumnTexts(fdw_private.sql) =
            [k \in 1..Len(ReferencedColumns) |-> ColumnText(rel, ReferencedColumns[k])]

\* the number of parameters of a write: one for each target column, and one
\* for the key of an UPDATE or DELETE
NumParams ==
    Len(fdw_private.targetAttrs) + (IF operation \in {"UPDATE", "DELETE"} THEN 1 ELSE 0)

\* C29: the number of placeholders in a write statement's text, the
\* parameter count the statement is created with and the number of
\* parameters bound before each execute are equal: the target list's length
\* for INSERT (0 for DEFAULT VALUES), that plus one for UPDATE, one for DELETE.
C29_PlaceholdersMatchParameters ==
    /\ (IsWrite /\ pc = "planned" /\ error = NoError) =>
          NumPlaceholders(fdw_private.sql) = NumParams
    /\ (IsWrite /\ RowSent) =>
          /\ operation = "DELETE" => NumParams = 1
          /\ NumPlaceholders(wire.query) = NumParams
          /\ cass_statement.nparams = NumParams
          /\ Len(wire.params) = NumParams
          /\ \A k \in 1..Len(wire.params) : wire.params[k].kind # "unset"

\* an UPDATE of two columns was executed with its three parameters
C29_Witness ==
    /\ operation = "UPDATE"
    /\ RowSent
    /\ Len(fdw_private.targetAttrs) = 2
    /\ NumPlaceholders(wire.query) = 3
    /\ Len(wire.params) = 3

\* C30: in every reachable scan state 0 <= next <= count; between two
\* re-scans successive row requests return the tuples of the batch in batch
\* order, each once, and then the empty result on every further request;
\* after a re-scan the same sequence is returned again from the first tuple.
C30_BatchIsReturnedInOrder ==
    /\ [](operation = "SELECT" =>
             /\ 0 <= fsstate.next_tuple
             /\ fsstate.next_tuple <= fsstate.num_tuples
             /\ fsstate.num_tuples = Len(fsstate.tuples))
    /\ [][/\ (IterateForeignScan /\ error' = NoError) =>
                /\ fsstate.sql_sended => /\ fsstate'.tuples = fsstate.tuples
                                         /\ calls' = calls
                /\ IF fsstate.next_tuple < fsstate'.num_tuples
                   THEN /\ slot_out' = StoredSlot(fsstate'.tuples[fsstate.next_tuple + 1])
                        /\ fsstate'.next_tuple = fsstate.next_tuple + 1
                   ELSE /\ slot_out' = EmptySlot
                        /\ fsstate'.next_tuple = fsstate.next_tuple
          /\ (ReScanForeignScan /\ fsstate.sql_sended) =>
                /\ fsstate'.next_tuple = 0
                /\ fsstate'.tuples = fsstate.tuples
                /\ fsstate'.num_tuples = fsstate.num_tuples
         ]_vars

\* both tuples of a batch were returned and a further request got the empty
\* result
C30_Witness ==
    /\ operation = "SELECT"
    /\ pc = "begun"
    /\ fsstate.num_tuples = 2
    /\ fsstate.next_tuple = 2
    /\ fsstate.tuples[1] # fsstate.tuples[2]
    /\ slot_out = EmptySlot
====
